---- MODULE Spec2Model ----
(***************************************************************************)
(* AlgoInsight (dsa-visualizer): the multi-tenant orchestration layer and  *)
(* its browser client.  The backend (main.py, pipeline.py,                 *)
(* credential_store.py, request_context.py) is modelled from the           *)
(* architecture document of the repository, the client from its           *)
(* TypeScript sources.                                                     *)
(*                                                                         *)
(*   SpecVault    the credential store: store / get / delete / cleanup     *)
(*                under a clock                                            *)
(*   SpecKey      generate_cache_key applied to bounded inputs             *)
(*   SpecServer   the analyze endpoint: concurrent calls, credential       *)
(*                resolution, the shared trace cache                       *)
(*   SpecClient   the Sidebar of one tab: key entry, validation, storing   *)
(*                on the backend, localStorage, analyze/learn requests     *)
(*   SpecFrames   the client paths that turn a response into a Trace       *)
(*   SpecRepair   the repair of a frame by the adapter (data, highlights,  *)
(*                quiz), the validation of cached results, the QUIZ FIX    *)
(*   SpecCache    the caching layers: router, memory cache, file cache     *)
(*                with its TTL, filled by analyze calls, not learn calls   *)
(*   SpecCrypto   the credential store under a missing or rotated key or a *)
(*                damaged row, and the credential resolution that follows  *)
(*   SpecLocks    concurrent handlers: the cache's RLock, the connections  *)
(*                to sessions.db, the awaits of pipeline and validation,   *)
(*                the write of a cache file by temporary file and rename   *)
(*   SpecApp      App.tsx: playback with quizzes, the controls, the        *)
(*                learning flow, the health check and the mode lock        *)
(*   SpecApi      apiService.ts: the session id header of the requests     *)
(*                and the timeout of an analyze or learn call              *)
(***************************************************************************)
EXTENDS Integers, Sequences, FiniteSets, TLC

(***************************************************************************)
(* Bounds of the model                                                     *)
(***************************************************************************)
\* browser tabs, each with its own session id 1..NumSessions
NumSessions == 2
\* the clock runs from 0 to MaxHours
MaxHours == 48
\* problem texts of the cache-key check have at most MaxTextLen characters
MaxTextLen == 3
\* the server receives at most MaxCalls analyze calls
MaxCalls == 2
\* a response holds at most MaxFrames frames
MaxFrames == 2
\* a frame's data_entries list holds at most MaxEntries entries
MaxEntries == 2
\* a quiz of the pipeline holds at most MaxQuizOptions options
MaxQuizOptions == 4
\* a frame of the pipeline holds at most MaxHighlights highlights
MaxHighlights == 2

(***************************************************************************)
(* Program constants                                                       *)
(***************************************************************************)
\* req.headers.get("X-Session-ID", "anonymous"): the id of a call without header
ANONYMOUS == 0
\* "Set TTL: 24 hours"
TTL_HOURS == 24

SessionIds == 1..NumSessions
\* the clock advances in steps of half a TTL
TickHours == TTL_HOURS \div 2

Providers == <<"azure", "openai", "gemini">>

DefaultModel(p) == IF p = "gemini" THEN "gemini-2.5-flash" ELSE "gpt-4o"

\* the user of tab u owns one provider account: provider, model and API key
ProviderOf(u) == Providers[((u - 1) % Len(Providers)) + 1]
SecretOf(u) == <<"sk", u>>
NoSecret == <<>>
UserCfg(u) ==
  [provider |-> ProviderOf(u), model |-> DefaultModel(ProviderOf(u)), api_key |-> SecretOf(u)]
AllCfgs == {UserCfg(u) : u \in SessionIds}

VARIABLES
  now,         \* the server clock, in hours
  vault,       \* sessions.db: session_id -> row
  lastStore,   \* history: the most recent store of a session that was not deleted since
  got,         \* the last get_credentials call and what it returned
  keyText,     \* generate_cache_key: the problem_text argument
  keyToggles,  \* generate_cache_key: the context_toggles argument
  keyOut,      \* generate_cache_key: the returned key, <<>> before the call
  env_default,   \* the operator's default configuration from the environment
  memory_cache,  \* layer 2: the in-process dictionary, key -> trace
  file_cache,    \* layer 3: data/cache/{hash}.json, key -> trace
  pc,            \* per tab: where its analyze call stands
  req,           \* per tab: the request of its call
  context,       \* per tab: the RequestContext of its call
  used,          \* per tab: the context its pipeline run was given
  result,        \* per tab: the response of its last finished call
  invocations,   \* history: cache key -> number of pipeline runs started for it
  calls,         \* the number of analyze calls received
  apiKey,            \* Sidebar state: the API key field
  selectedProvider,  \* Sidebar state: the chosen provider
  validationStatus,  \* Sidebar state: 'idle' | 'valid' | 'invalid'
  flight,            \* handleValidate: where it stands, with its captured config
  localStorage,      \* the browser's localStorage items of the app
  lastRequest,       \* the last HTTP request the tab sent
  rawFrames,         \* the frames of the response a client path received
  returned,          \* what the client path handed to its caller
  repairIn,          \* the frame as the pipeline (or the response) delivered it
  repairOut,         \* the frame as it stands after the passes so far
  repairPasses,      \* the number of adapter repair passes applied
  repairPath,        \* "none", "adapter", "cached" or "client": who repaired last
  pattern_library,   \* layer 1: the smart router's table, pattern -> pre-computed trace
  file_mtime,        \* layer 3: the day each cache file was written
  today,             \* the server's date, in days
  looked,            \* the last cache lookup and what it returned
  lastCall,          \* history: the last analyze or learn call and its outcome
  fernet_key,        \* the value of CREDENTIAL_ENCRYPTION_KEY the process runs with
  storeResult,       \* the response of the last store-credentials call
  resolved,          \* the last credential resolution of a call and its outcome
  cache_lock,        \* the holder of the memory cache's RLock, 0 when free
  vault_txn,         \* the handler with an open sessions.db connection, 0 when none
  hpc,               \* per handler: the step its call stands at
  hcall,             \* per handler: its call
  temp_file,         \* per handler: the temporary file of its cache write
  appTrace,              \* App state trace: per frame, whether it has a quiz
  currentStep,           \* App state
  isPlaying,             \* App state
  quizSolved,            \* App state
  wasPlayingBeforeQuiz,  \* App state
  isLoading,             \* App state
  backendActive,         \* App state: the result of the last health check
  sessionBackendMode,    \* App state: the locked mode, "null" when not locked
  showLearningJourney,   \* App state
  showAlgorithmDeepDive, \* App state
  learningPhases,        \* App state: the number of learning phases held
  pending,               \* the request of handleAnalyze or runVisualizationWithAlgorithm in flight
  healthCheck,           \* whether a checkBackend fetch is in flight
  flowMode,              \* history: the mode the last learning request used
  event,                 \* history: the playback handler that ran last, "flow" for the others
  sessionStorage,        \* the tab's sessionStorage item algoinsight_session_id
  sentRequests,          \* history: the requests the tab sent, with their X-Session-ID
  apiCall,               \* analyzeProblemWithBackend / learnProblemWithBackend: where the call stands
  timer,                 \* the call's setTimeout and its AbortController
  elapsed                \* the time since the call began, in minutes

vaultVars == <<now, vault, lastStore, got>>
keyVars == <<keyText, keyToggles, keyOut>>
cacheVars == <<memory_cache, file_cache>>
callVars == <<pc, req, context, used, result, invocations, calls>>
serverVars == <<env_default, cacheVars, callVars>>
clientVars == <<apiKey, selectedProvider, validationStatus, flight, localStorage, lastRequest>>
frameVars == <<rawFrames, returned>>
repairVars == <<repairIn, repairOut, repairPasses, repairPath>>
storeVars == <<pattern_library, file_mtime, today, looked, lastCall>>
cryptoVars == <<fernet_key, storeResult, resolved>>
lockVars == <<cache_lock, vault_txn, hpc, hcall, temp_file>>
appVars ==
  <<appTrace, currentStep, isPlaying, quizSolved, wasPlayingBeforeQuiz, isLoading,
    backendActive, sessionBackendMode, showLearningJourney, showAlgorithmDeepDive,
    learningPhases, pending, healthCheck, flowMode, event>>
apiVars == <<sessionStorage, sentRequests, apiCall, timer, elapsed>>
uiVars == <<appVars, apiVars>>
laterVars == <<storeVars, cryptoVars, lockVars, uiVars>>
nonVaultVars == <<keyVars, serverVars, clientVars, frameVars, repairVars, laterVars>>
nonKeyVars == <<vaultVars, serverVars, clientVars, frameVars, repairVars, laterVars>>
nonServerVars == <<vaultVars, keyVars, clientVars, frameVars, repairVars, laterVars>>
nonClientVars == <<keyVars, serverVars, frameVars, repairVars, laterVars>>
nonFrameVars == <<vaultVars, keyVars, serverVars, clientVars, repairVars, laterVars>>
nonRepairVars == <<vaultVars, keyVars, serverVars, clientVars, frameVars, laterVars>>
nonStoreVars ==
  <<vaultVars, keyVars, env_default, callVars, clientVars, frameVars, repairVars,
    cryptoVars, lockVars, uiVars>>
nonCryptoVars ==
  <<keyVars, cacheVars, callVars, clientVars, frameVars, repairVars, storeVars, lockVars,
    uiVars>>
nonLockVars ==
  <<now, lastStore, got, keyVars, env_default, callVars, clientVars, frameVars, repairVars,
    storeVars, cryptoVars, uiVars>>
nonAppVars ==
  <<vaultVars, keyVars, serverVars, clientVars, frameVars, repairVars, storeVars, cryptoVars,
    lockVars, apiVars>>
nonApiVars ==
  <<vaultVars, keyVars, serverVars, clientVars, frameVars, repairVars, storeVars, cryptoVars,
    lockVars, appVars>>
vars == <<vaultVars, keyVars, serverVars, clientVars, frameVars, repairVars, laterVars>>

(***************************************************************************)
(* credential_store.py                                                     *)
(***************************************************************************)
\* the Fernet key of the deployment; the process reads it from the environment
\* into fernet_key
CREDENTIAL_ENCRYPTION_KEY == "K1"
\* a key generated later with Fernet.generate_key()
ROTATED_KEY == "K2"
\* the variable is not set
NO_KEY == ""

\* Fernet: authenticated symmetric encryption; decrypt under another key fails
fernet_encrypt(k, plain) == [fernet |-> k, payload |-> plain]

\* the mutant of fernet_decrypt: the payload is returned without authentication
fernet_decrypt_unauthenticated(k, token) == token.payload

fernet_decrypt(k, token) ==
  IF token.fernet = k THEN token.payload ELSE <<"InvalidToken">>

NoRow == [exists |-> FALSE]
NotFound == [exists |-> FALSE]

\* the mutant of store_row: the row is written without a new expiry on overwrite
store_row_keep_expiry(old, cfg, t) ==
  [exists |-> TRUE, provider |-> cfg.provider, model |-> cfg.model,
   encrypted_api_key |-> fernet_encrypt(fernet_key, cfg.api_key),
   created_at |-> t,
   expires_at |-> IF old.exists THEN old.expires_at ELSE t + TTL_HOURS]

\* the row store_credentials upserts
store_row(old, cfg, t) ==
  [exists |-> TRUE, provider |-> cfg.provider, model |-> cfg.model,
   encrypted_api_key |-> fernet_encrypt(fernet_key, cfg.api_key),
   created_at |-> t,
   expires_at |-> t + TTL_HOURS]

\* the mutant of row_of: every session reads the first row of the table
row_of_any(s) ==
  IF \E u \in SessionIds : vault[u].exists
  THEN vault[CHOOSE u \in SessionIds : vault[u].exists]
  ELSE NoRow

\* SELECT ... WHERE session_id = s
row_of(s) == IF s \in SessionIds THEN vault[s] ELSE NoRow

\* the mutant of is_live: a row never expires
is_live_forever(row, t) == TRUE

\* "Check expiration: now < expires_at?"
is_live(row, t) == t < row.expires_at

\* get_credentials(session_id): the decrypted credential, or NotFound
get_credentials(s) ==
  LET row == row_of(s) IN
  IF ~row.exists THEN NotFound
  ELSE IF ~is_live(row, now) THEN NotFound
  ELSE LET plain == fernet_decrypt(fernet_key, row.encrypted_api_key) IN
       IF plain = <<"InvalidToken">> THEN NotFound
       ELSE [exists |-> TRUE, provider |-> row.provider, model |-> row.model,
             api_key |-> plain]

\* GET /session/{id}/credentials: metadata only
session_credentials(s) ==
  LET c == get_credentials(s) IN
  IF c.exists THEN [exists |-> TRUE, provider |-> c.provider, model |-> c.model]
  ELSE [exists |-> FALSE]

\* POST /session/store-credentials
StoreCredentials(s, cfg) ==
  /\ vault' = [vault EXCEPT ![s] = store_row(vault[s], cfg, now)]
  /\ lastStore' = [lastStore EXCEPT ![s] = [stored |-> TRUE, cfg |-> cfg, at |-> now]]
  /\ UNCHANGED <<now, got>>
  /\ UNCHANGED nonVaultVars

\* a read of the store by a request; an expired row is deleted lazily
GetCredentials(s) ==
  /\ got' = [session |-> s, result |-> get_credentials(s)]
  /\ vault' = IF vault[s].exists /\ ~is_live(vault[s], now)
              THEN [vault EXCEPT ![s] = NoRow] ELSE vault
  /\ UNCHANGED <<now, lastStore>>
  /\ UNCHANGED nonVaultVars

\* DELETE /session/{id}: idempotent
DeleteSession(s) ==
  /\ vault' = [vault EXCEPT ![s] = NoRow]
  /\ lastStore' = [lastStore EXCEPT ![s] = [stored |-> FALSE]]
  /\ UNCHANGED <<now, got>>
  /\ UNCHANGED nonVaultVars

\* POST /session/cleanup: the sweep of expired sessions
CleanupExpired ==
  /\ \E s \in SessionIds : vault[s].exists /\ ~is_live(vault[s], now)
  /\ vault' = [s \in SessionIds |->
                 IF vault[s].exists /\ ~is_live(vault[s], now) THEN NoRow ELSE vault[s]]
  /\ UNCHANGED <<now, lastStore, got>>
  /\ UNCHANGED nonVaultVars

Tick ==
  /\ now + TickHours <= MaxHours
  /\ now' = now + TickHours
  /\ UNCHANGED <<vault, lastStore, got>>
  /\ UNCHANGED nonVaultVars

KeyIdle ==
  /\ keyText = <<>>
  /\ keyToggles = <<>>
  /\ keyOut = <<>>

NoRequest == [present |-> FALSE]
NoContext == [resolved |-> FALSE]
NoResult == [kind |-> "none"]
NoConfig == [present |-> FALSE]

ServerIdle ==
  /\ env_default = NoConfig
  /\ memory_cache = <<>>
  /\ file_cache = <<>>
  /\ pc = [h \in SessionIds |-> "idle"]
  /\ req = [h \in SessionIds |-> NoRequest]
  /\ context = [h \in SessionIds |-> NoContext]
  /\ used = [h \in SessionIds |-> NoContext]
  /\ result = [h \in SessionIds |-> NoResult]
  /\ invocations = <<>>
  /\ calls = 0

\* no request sent yet
NoMessage == [endpoint |-> "none", session_id |-> ANONYMOUS, provider |-> "", api_key |-> NoSecret]
\* handleValidate is not running
NoFlight == [stage |-> "none", provider |-> "", api_key |-> NoSecret]
\* localStorage.getItem returns null for both items
NoItems == [provider |-> "", api_key |-> NoSecret]

\* the Sidebar as useState initialises it, with an empty localStorage
ClientIdle ==
  /\ apiKey = NoSecret
  /\ selectedProvider = "azure"
  /\ validationStatus = "idle"
  /\ flight = NoFlight
  /\ localStorage = NoItems
  /\ lastRequest = NoMessage

\* no client path has returned
NothingReturned == [path |-> "none", outcome |-> "none", frames |-> <<>>]

FramesIdle ==
  /\ rawFrames = <<>>
  /\ returned = NothingReturned

NoQuiz == [present |-> FALSE]
\* a frame without data, highlights and quiz
EmptyFrame == [data |-> <<>>, highlights |-> <<>>, quiz |-> NoQuiz, trace_vars |-> <<>>]

RepairIdle ==
  /\ repairIn = EmptyFrame
  /\ repairOut = EmptyFrame
  /\ repairPasses = 0
  /\ repairPath = "none"

\* the pre-computed trace of the algorithm library for a pattern
library_trace(pattern) ==
  [key |-> <<"library", pattern>>, provider_used |-> "library", model_used |-> "none",
   session_id |-> ANONYMOUS, agents |-> 0]

\* the smart router's patterns ("two sum" -> Two Sum, ...): one known problem
PATTERN_LIBRARY == [p \in {<<"a", "a">>} |-> library_trace(p)]

NoLookup == [done |-> FALSE]
NoCall == [n |-> 0, mode |-> "none", ok |-> FALSE]

StoreIdle ==
  /\ pattern_library = PATTERN_LIBRARY
  /\ file_mtime = <<>>
  /\ today = 0
  /\ looked = NoLookup
  /\ lastCall = NoCall

NoStoreResult == [done |-> FALSE]
NoResolution == [done |-> FALSE]

CryptoIdle ==
  /\ fernet_key = CREDENTIAL_ENCRYPTION_KEY
  /\ storeResult = NoStoreResult
  /\ resolved = NoResolution

NoHandler == 0
\* no file of that name
NoFile == [written |-> FALSE]
\* a handler has not looked anything up
NotRead == [read |-> FALSE]
NoHandlerCall == [kind |-> "none"]

LockIdle ==
  /\ cache_lock = NoHandler
  /\ vault_txn = NoHandler
  /\ hpc = [h \in SessionIds |-> "idle"]
  /\ hcall = [h \in SessionIds |-> NoHandlerCall]
  /\ temp_file = [h \in SessionIds |-> NoFile]

\* geminiService.ts: the trace the app starts with has one frame, without a quiz
MOCK_TRACE == <<FALSE>>

\* no request of the app is in flight
NoPending == [kind |-> "none"]

\* the app as it is constructed: the useState initial values of App
AppIdle ==
  /\ appTrace = MOCK_TRACE
  /\ currentStep = 0
  /\ isPlaying = FALSE
  /\ quizSolved = FALSE
  /\ wasPlayingBeforeQuiz = FALSE
  /\ isLoading = FALSE
  /\ backendActive = FALSE
  /\ sessionBackendMode = "null"
  /\ showLearningJourney = FALSE
  /\ showAlgorithmDeepDive = FALSE
  /\ learningPhases = 0
  /\ pending = NoPending
  /\ healthCheck = FALSE
  /\ flowMode = "null"
  /\ event = "none"

\* no call of the API service has been made
NoApiCall == [stage |-> "idle", fn |-> "none", outcome |-> "none"]
NoTimer == [armed |-> FALSE, aborted |-> FALSE]

\* a new tab: nothing stored, nothing sent
ApiIdle ==
  /\ sessionStorage = ""
  /\ sentRequests = {}
  /\ apiCall = NoApiCall
  /\ timer = NoTimer
  /\ elapsed = 0

UiIdle == AppIdle /\ ApiIdle

LaterIdle == StoreIdle /\ CryptoIdle /\ LockIdle /\ UiIdle

VaultIdle ==
  /\ now = 0
  /\ vault = [s \in SessionIds |-> NoRow]
  /\ lastStore = [s \in SessionIds |-> [stored |-> FALSE]]
  /\ got = [session |-> ANONYMOUS, result |-> NotFound]

VaultInit ==
  /\ KeyIdle
  /\ ServerIdle
  /\ ClientIdle
  /\ FramesIdle
  /\ RepairIdle
  /\ LaterIdle
  /\ now = 0
  /\ vault = [s \in SessionIds |-> NoRow]
  /\ lastStore = [s \in SessionIds |-> [stored |-> FALSE]]
  /\ got = [session |-> ANONYMOUS, result |-> NotFound]

VaultNext ==
  \/ \E s \in SessionIds, cfg \in AllCfgs : StoreCredentials(s, cfg)
  \/ \E s \in SessionIds : GetCredentials(s)
  \/ \E s \in SessionIds : DeleteSession(s)
  \/ CleanupExpired
  \/ Tick

SpecVault == VaultInit /\ [][VaultNext]_vars

(***************************************************************************)
(* pipeline.py: generate_cache_key                                         *)
(***************************************************************************)
\* the characters of the problem texts that are checked
TextChars == {"a", "A", " "}
\* ContextOption, in Python's string order
Toggles == <<"Embedded System", "High Throughput", "Low Memory">>

RECURSIVE SeqsUpTo(_, _)
SeqsUpTo(S, n) ==
  IF n = 0 THEN {<<>>}
  ELSE LET shorter == SeqsUpTo(S, n - 1) IN
       shorter \cup {Append(q, x) : q \in shorter, x \in S}

Texts == SeqsUpTo(TextChars, MaxTextLen)

ToggleSet == {Toggles[i] : i \in 1..Len(Toggles)}
\* the sidebar toggles an option on or off: a list without repetitions
ToggleLists ==
  {q \in SeqsUpTo(ToggleSet, Len(Toggles)) : \A i, j \in 1..Len(q) : i # j => q[i] # q[j]}

IsSpace(ch) == ch \in {" ", "\t", "\n"}

\* str.lower(), character by character
LowerChar(ch) == IF ch = "A" THEN "a" ELSE IF ch = "B" THEN "b" ELSE ch
lower(t) == [i \in 1..Len(t) |-> LowerChar(t[i])]

\* str.strip(): whitespace is removed at both ends only
RECURSIVE lstrip(_)
lstrip(t) == IF t # <<>> /\ IsSpace(Head(t)) THEN lstrip(Tail(t)) ELSE t
RECURSIVE rstrip(_)
rstrip(t) ==
  IF t # <<>> /\ IsSpace(t[Len(t)]) THEN rstrip(SubSeq(t, 1, Len(t) - 1)) ELSE t
strip(t) == rstrip(lstrip(t))

ToggleRank(x) == CHOOSE i \in 1..Len(Toggles) : Toggles[i] = x

\* sorted(context_toggles): insertion into an ordered list
RECURSIVE insert_sorted(_, _)
insert_sorted(x, q) ==
  IF q = <<>> THEN <<x>>
  ELSE IF ToggleRank(x) <= ToggleRank(Head(q)) THEN <<x>> \o q
  ELSE <<Head(q)>> \o insert_sorted(x, Tail(q))
RECURSIVE sorted(_)
sorted(q) == IF q = <<>> THEN <<>> ELSE insert_sorted(Head(q), sorted(Tail(q)))

\* ':'.join(parts)
RECURSIVE join(_)
join(q) ==
  IF q = <<>> THEN <<>>
  ELSE IF Len(q) = 1 THEN <<q[1]>>
  ELSE <<q[1], ":">> \o join(Tail(q))

\* hashlib.sha256(...).hexdigest(): a digest that identifies its input
sha256(x) == <<"sha256", x>>

\* the mutant of normalize_text: the text is trimmed but not case-folded
normalize_text_no_lower(t) == strip(t)

\* normalized = problem_text.strip().lower()
normalize_text(t) == lower(strip(t))

\* the mutant of sort_toggles: the toggles are joined in the order received
sort_toggles_unsorted(q) == q

\* sorted_toggles = sorted(context_toggles)
sort_toggles(q) == sorted(q)

generate_cache_key(problem_text, context_toggles) ==
  sha256(normalize_text(problem_text) \o <<":">> \o join(sort_toggles(context_toggles)))

\* one call of generate_cache_key
ComputeKey ==
  /\ keyOut = <<>>
  /\ keyOut' = generate_cache_key(keyText, keyToggles)
  /\ UNCHANGED <<keyText, keyToggles>>
  /\ UNCHANGED nonKeyVars

KeyInit ==
  /\ VaultIdle
  /\ ServerIdle
  /\ ClientIdle
  /\ FramesIdle
  /\ RepairIdle
  /\ LaterIdle
  /\ keyText \in Texts
  /\ keyToggles \in ToggleLists
  /\ keyOut = <<>>

KeyNext == ComputeKey

SpecKey == KeyInit /\ [][KeyNext]_vars

(***************************************************************************)
(* main.py: analyze_algorithm, and pipeline.py: Pipeline.run_analysis      *)
(***************************************************************************)
\* the five agents of run_analysis: normalizer, strategist, instrumenter,
\* tracer, narrator
NUM_AGENTS == 5

\* the llm_config of a request body
ConfigOf(cfg) ==
  [present |-> TRUE, provider |-> cfg.provider, model |-> cfg.model, api_key |-> cfg.api_key]

\* the operator's fallback key in the environment (AZURE_OPENAI_API_KEY)
EnvCfg == [provider |-> "azure", model |-> "gpt-4o", api_key |-> SecretOf(NumSessions + 1)]

\* what the user of tab h types into the sidebar: the stored account with a
\* newer key
TypedCfg(h) == [UserCfg(h) EXCEPT !.api_key = SecretOf(NumSessions + 1 + h)]

\* RequestContext.from_request(config, session_id)
from_request(cfg, session_id, source) ==
  [resolved |-> TRUE, credential |-> TRUE, session_id |-> session_id,
   provider |-> cfg.provider, model |-> cfg.model, api_key |-> cfg.api_key,
   source |-> source]

\* RequestContext.from_env(session_id): the default configuration; without one
\* the call has no credential and fails with NoCredential when it needs one
from_env(session_id) ==
  IF env_default.present
  THEN from_request(env_default, session_id, "env")
  ELSE [resolved |-> TRUE, credential |-> FALSE, session_id |-> session_id,
        source |-> "none"]

\* the mutant of resolve_context: the stored credentials win over the request's
resolve_context_vault_first(session_id, llm_config) ==
  IF session_id # ANONYMOUS /\ get_credentials(session_id).exists
  THEN from_request(get_credentials(session_id), session_id, "session")
  ELSE IF llm_config.present /\ llm_config.api_key # NoSecret
  THEN from_request(llm_config, session_id, "request")
  ELSE from_env(session_id)

\* analyze_algorithm: "Credential Resolution (Priority Order)"
resolve_context(session_id, llm_config) ==
  IF llm_config.present /\ llm_config.api_key # NoSecret
  THEN from_request(llm_config, session_id, "request")
  ELSE IF session_id # ANONYMOUS
  THEN LET stored == get_credentials(session_id) IN
       IF stored.exists
       THEN from_request(stored, session_id, "session")
       ELSE from_env(session_id)
  ELSE from_env(session_id)

\* the mutant of request_key: the caller's session is mixed into the hashed text
request_key_with_session(r) ==
  generate_cache_key(r.problem_text \o [i \in 1..r.session_id |-> "a"], r.context_toggles)

\* cache_key = hash(problem_text + context_toggles)
request_key(r) == generate_cache_key(r.problem_text, r.context_toggles)

\* cache.has(key): the memory layer, then the file layer
cache_has(k) == k \in DOMAIN memory_cache \/ k \in DOMAIN file_cache

\* cache.get(key)
cache_get(k) == IF k \in DOMAIN memory_cache THEN memory_cache[k] ELSE file_cache[k]

\* the mutant of cache_set: the write is lost
cache_set_lost(layer, k, v) == layer

\* cache.set(key, value) on one layer
cache_set(layer, k, v) == [x \in (DOMAIN layer) \cup {k} |-> IF x = k THEN v ELSE layer[x]]

\* the mutant of cache_after_failure: what the failed run left is cached
cache_after_failure_stores(layer, k, partial) == cache_set(layer, k, partial)

\* a run that raises never reaches cache.set: the layer stays as it is
cache_after_failure(layer, k, partial) == layer

\* the mutant of pipeline_context: one context slot shared by all requests
pipeline_context_shared(h) ==
  context[CHOOSE g \in SessionIds : context[g].resolved /\ \A f \in SessionIds : context[f].resolved => g <= f]

\* Pipeline(context): the context the run and its providers are given
pipeline_context(h) == context[h]

\* the response of a run with context ctx for key k
trace_of(k, ctx) ==
  [key |-> k, provider_used |-> ctx.provider, model_used |-> ctx.model,
   session_id |-> ctx.session_id, agents |-> NUM_AGENTS]

\* what a run that failed after n agents holds
partial_of(k, ctx, n) ==
  [key |-> k, provider_used |-> ctx.provider, model_used |-> ctx.model,
   session_id |-> ctx.session_id, agents |-> n]

count_of(k) == IF k \in DOMAIN invocations THEN invocations[k] ELSE 0

\* POST /analyze arrives; the handler resolves its RequestContext
ReceiveAnalyze(h, session_id, text, toggles, llm_config) ==
  /\ pc[h] \in {"idle", "done"}
  /\ calls < MaxCalls
  /\ calls' = calls + 1
  /\ req' = [req EXCEPT ![h] = [present |-> TRUE, session_id |-> session_id,
                                problem_text |-> text, context_toggles |-> toggles,
                                llm_config |-> llm_config]]
  /\ context' = [context EXCEPT ![h] = resolve_context(session_id, llm_config)]
  /\ used' = [used EXCEPT ![h] = NoContext]
  /\ result' = [result EXCEPT ![h] = NoResult]
  /\ pc' = [pc EXCEPT ![h] = "resolved"]
  /\ UNCHANGED <<env_default, cacheVars, invocations>>
  /\ UNCHANGED nonServerVars

\* run_analysis: "Check cache first"; on a miss the five agents are started
CheckCache(h) ==
  /\ pc[h] = "resolved"
  /\ LET k == request_key(req[h]) IN
     IF cache_has(k)
     THEN /\ result' = [result EXCEPT ![h] =
                          [kind |-> "trace", trace |-> cache_get(k), route_path |-> "cache"]]
          /\ pc' = [pc EXCEPT ![h] = "done"]
          /\ UNCHANGED <<used, invocations>>
     ELSE IF ~context[h].credential
     THEN /\ result' = [result EXCEPT ![h] = [kind |-> "error", error |-> "NoCredential"]]
          /\ pc' = [pc EXCEPT ![h] = "done"]
          /\ UNCHANGED <<used, invocations>>
     ELSE /\ used' = [used EXCEPT ![h] = pipeline_context(h)]
          /\ invocations' = [x \in (DOMAIN invocations) \cup {k} |->
                                IF x = k THEN count_of(k) + 1 ELSE invocations[x]]
          /\ pc' = [pc EXCEPT ![h] = "running"]
          /\ UNCHANGED result
  /\ UNCHANGED <<env_default, cacheVars, req, context, calls>>
  /\ UNCHANGED nonServerVars

\* the narrator returned: "Cache result" in both layers, then the response
PipelineSucceed(h) ==
  /\ pc[h] = "running"
  /\ LET k == request_key(req[h])
         t == trace_of(k, used[h])
     IN /\ memory_cache' = cache_set(memory_cache, k, t)
        /\ file_cache' = cache_set(file_cache, k, t)
        /\ result' = [result EXCEPT ![h] =
                        [kind |-> "trace", trace |-> t, route_path |-> "llm"]]
  /\ pc' = [pc EXCEPT ![h] = "done"]
  /\ UNCHANGED <<env_default, req, context, used, invocations, calls>>
  /\ UNCHANGED nonServerVars

PipelineErrors == {"ProviderError", "Timeout", "MalformedOutput"}

\* a run fails in its first agent or in its last
FailPoints == {0, NUM_AGENTS - 1}

\* an agent raised, or the bounded wait ran out, after n agents had returned
PipelineFail(h, error, n) ==
  /\ pc[h] = "running"
  /\ LET k == request_key(req[h])
         partial == partial_of(k, used[h], n)
     IN /\ memory_cache' = cache_after_failure(memory_cache, k, partial)
        /\ file_cache' = cache_after_failure(file_cache, k, partial)
  /\ result' = [result EXCEPT ![h] = [kind |-> "error", error |-> error]]
  /\ pc' = [pc EXCEPT ![h] = "done"]
  /\ UNCHANGED <<env_default, req, context, used, invocations, calls>>
  /\ UNCHANGED nonServerVars

\* the memory layer is "cleared on server restart"; the files persist
ServerRestart ==
  /\ \A h \in SessionIds : pc[h] \in {"idle", "done"}
  /\ memory_cache # <<>>
  /\ memory_cache' = <<>>
  /\ UNCHANGED <<env_default, file_cache, callVars>>
  /\ UNCHANGED nonServerVars

\* the clock runs on to the end of the observed period
TimePasses ==
  /\ now < MaxHours
  /\ now' = MaxHours
  /\ UNCHANGED <<vault, lastStore, got>>
  /\ UNCHANGED nonVaultVars

\* the problems the tabs submit, as <<problem_text, context_toggles>>: the
\* first two differ in casing and trailing whitespace only
Problems == {<<<<"a">>, <<>>>>, <<<<"A", " ">>, <<>>>>, <<<<"a">>, <<"Low Memory">>>>}

\* what tab h may send as llm_config: nothing, the typed configuration, or
\* one whose API key was left empty
RequestConfigs(h) ==
  {NoConfig, ConfigOf(TypedCfg(h)), [ConfigOf(TypedCfg(h)) EXCEPT !.api_key = NoSecret]}

\* a request without X-Session-ID header carries no llm_config of a sidebar
RequestShapes(h) ==
  {<<h, c>> : c \in RequestConfigs(h)} \cup {<<ANONYMOUS, NoConfig>>}

ServerInit ==
  /\ VaultIdle
  /\ KeyIdle
  /\ ClientIdle
  /\ FramesIdle
  /\ RepairIdle
  /\ LaterIdle
  /\ env_default \in {NoConfig, ConfigOf(EnvCfg)}
  /\ memory_cache = <<>>
  /\ file_cache = <<>>
  /\ pc = [h \in SessionIds |-> "idle"]
  /\ req = [h \in SessionIds |-> NoRequest]
  /\ context = [h \in SessionIds |-> NoContext]
  /\ used = [h \in SessionIds |-> NoContext]
  /\ result = [h \in SessionIds |-> NoResult]
  /\ invocations = <<>>
  /\ calls = 0

ServerNext ==
  \/ \E h \in SessionIds, problem \in Problems :
       \E shape \in RequestShapes(h) :
         ReceiveAnalyze(h, shape[1], problem[1], problem[2], shape[2])
  \/ \E h \in SessionIds : CheckCache(h)
  \/ \E h \in SessionIds : PipelineSucceed(h)
  \/ \E h \in SessionIds, error \in PipelineErrors, n \in FailPoints :
       PipelineFail(h, error, n)
  \/ ServerRestart
  \/ \E s \in SessionIds : StoreCredentials(s, UserCfg(s))
  \/ \E s \in SessionIds : DeleteSession(s)
  \/ TimePasses

SpecServer == ServerInit /\ [][ServerNext]_vars

(***************************************************************************)
(* Sidebar.tsx and apiService.ts: the credential flow of one browser tab   *)
(***************************************************************************)
\* the session id getSessionId() returns in this tab
ClientTab == CHOOSE s \in SessionIds : \A t \in SessionIds : s <= t

\* the keys the user may type: the key of the account, or a newer one
ClientKeys == {UserCfg(ClientTab).api_key, TypedCfg(ClientTab).api_key}

ProviderSet == {Providers[i] : i \in 1..Len(Providers)}

\* a request of apiService.ts: every one carries the X-Session-ID header
Message(endpoint, provider, api_key) ==
  [endpoint |-> endpoint, session_id |-> ClientTab, provider |-> provider, api_key |-> api_key]

\* saveConfig(): the items after it ran with the given provider and key
saved_items(items, provider, key) == [provider |-> provider, api_key |-> key]

\* the key field is edited: onChange of the API key input
TypeApiKey(k) ==
  /\ k # apiKey
  /\ apiKey' = k
  /\ validationStatus' = "idle"
  /\ UNCHANGED <<selectedProvider, flight, localStorage, lastRequest>>
  /\ UNCHANGED <<vaultVars, nonClientVars>>

\* a provider button is clicked; the effect on selectedProvider resets the status
SelectProvider(p) ==
  /\ p # selectedProvider
  /\ selectedProvider' = p
  /\ validationStatus' = "idle"
  /\ UNCHANGED <<apiKey, flight, localStorage, lastRequest>>
  /\ UNCHANGED <<vaultVars, nonClientVars>>

\* handleValidate up to its first await: POST /validate-credentials
HandleValidate ==
  /\ apiKey # NoSecret
  /\ flight.stage = "none"
  /\ validationStatus' = "idle"
  /\ flight' = [stage |-> "validating", provider |-> selectedProvider, api_key |-> apiKey]
  /\ lastRequest' = Message("validate-credentials", selectedProvider, apiKey)
  /\ UNCHANGED <<apiKey, selectedProvider, localStorage>>
  /\ UNCHANGED <<vaultVars, nonClientVars>>

\* the mutant of stores_after: the credentials are stored whatever the result
stores_after_any(valid) == TRUE

\* if (result.valid): whether handleValidate goes on to store the credentials
stores_after(valid) == valid

\* validateCredentials returned; when valid, POST /session/store-credentials
ValidateReturns(valid) ==
  /\ flight.stage = "validating"
  /\ validationStatus' = IF valid THEN "valid" ELSE "invalid"
  /\ IF stores_after(valid)
     THEN /\ flight' = [flight EXCEPT !.stage = "storing"]
          /\ lastRequest' = Message("session/store-credentials", flight.provider, flight.api_key)
     ELSE /\ flight' = NoFlight
          /\ UNCHANGED lastRequest
  /\ UNCHANGED <<apiKey, selectedProvider, localStorage>>
  /\ UNCHANGED <<vaultVars, nonClientVars>>

\* storeSessionCredentials returned (the backend stored the record, or the
\* request failed); then saveConfig() of the render that was clicked
StoreReturns(ok) ==
  /\ flight.stage = "storing"
  /\ IF ok
     THEN /\ vault' = [vault EXCEPT ![ClientTab] =
                         store_row(vault[ClientTab],
                                   [provider |-> flight.provider,
                                    model |-> DefaultModel(flight.provider),
                                    api_key |-> flight.api_key], now)]
          /\ lastStore' = [lastStore EXCEPT ![ClientTab] =
                             [stored |-> TRUE,
                              cfg |-> [provider |-> flight.provider,
                                       model |-> DefaultModel(flight.provider),
                                       api_key |-> flight.api_key],
                              at |-> now]]
     ELSE UNCHANGED <<vault, lastStore>>
  /\ localStorage' = saved_items(localStorage, flight.provider, flight.api_key)
  /\ flight' = NoFlight
  /\ UNCHANGED <<apiKey, selectedProvider, validationStatus, lastRequest>>
  /\ UNCHANGED <<now, got, nonClientVars>>

\* handleAnalyze: saveConfig(), then onAnalyze sends POST /learn or /analyze
\* with the llmConfig of the Sidebar
HandleAnalyze(learningMode) ==
  /\ apiKey # NoSecret
  /\ localStorage' = saved_items(localStorage, selectedProvider, apiKey)
  /\ lastRequest' = Message(IF learningMode THEN "learn" ELSE "analyze", selectedProvider, apiKey)
  /\ UNCHANGED <<apiKey, selectedProvider, validationStatus, flight>>
  /\ UNCHANGED <<vaultVars, nonClientVars>>

\* the page is loaded again in the same tab: the state is initialised and
\* loadSavedConfig runs (GET /session/{id}/credentials, else localStorage).
\* The status ends 'valid' only when the provider stays the initial one, and
\* then only if the provider list had arrived before.
ReloadPage ==
  /\ flight.stage = "none"
  /\ lastRequest' = Message("session/credentials", "", NoSecret)
  /\ LET sessionCreds == session_credentials(ClientTab) IN
     IF sessionCreds.exists
     THEN /\ selectedProvider' = sessionCreds.provider
          /\ apiKey' = NoSecret
          /\ validationStatus' \in
               IF sessionCreds.provider = "azure" THEN {"valid", "idle"} ELSE {"idle"}
     ELSE /\ selectedProvider' =
               IF localStorage.provider # "" THEN localStorage.provider ELSE "azure"
          /\ apiKey' = localStorage.api_key
          /\ validationStatus' \in
               IF localStorage.api_key # NoSecret /\ localStorage.provider \in {"", "azure"}
               THEN {"valid", "idle"} ELSE {"idle"}
  /\ UNCHANGED <<flight, localStorage>>
  /\ UNCHANGED <<vaultVars, nonClientVars>>

ClientInit ==
  /\ VaultIdle
  /\ KeyIdle
  /\ ServerIdle
  /\ ClientIdle
  /\ FramesIdle
  /\ RepairIdle
  /\ LaterIdle

ClientNext ==
  \/ \E k \in ClientKeys \cup {NoSecret} : TypeApiKey(k)
  \/ \E p \in ProviderSet : SelectProvider(p)
  \/ HandleValidate
  \/ \E valid \in BOOLEAN : ValidateReturns(valid)
  \/ \E ok \in BOOLEAN : StoreReturns(ok)
  \/ \E learningMode \in BOOLEAN : HandleAnalyze(learningMode)
  \/ ReloadPage
  \/ TimePasses

SpecClient == ClientInit /\ [][ClientNext]_vars

(***************************************************************************)
(* apiService.ts and geminiService.ts: from the response to the Trace      *)
(***************************************************************************)
\* A frame of a response, by what the transforms look at:
\*   kind "null"     the frame is null
\*   kind "nostate"  the frame has no state
\*   kind "entries"  state.data_entries is a list; an entry is named ("x"),
\*                   has no name ("noname") or is null ("null")
\*   kind "data"     state.data is an object with the keys in data
\*   kind "strdata"  state.data is a string
\* The data of a frame is modelled by the set of its keys.
EntryKinds == {"x", "noname", "null"}

EntryLists == SeqsUpTo(EntryKinds, MaxEntries)

RawFrame(kind, entries, data) == [kind |-> kind, entries |-> entries, data |-> data]

RawFrames ==
  {RawFrame("null", <<>>, {}), RawFrame("nostate", <<>>, {}), RawFrame("strdata", <<>>, {})}
    \cup {RawFrame("entries", e, {}) : e \in EntryLists}
    \cup {RawFrame("data", <<>>, d) : d \in SUBSET {"x"}}

Responses == SeqsUpTo(RawFrames, MaxFrames)

HasNullEntry(entries) == \E i \in 1..Len(entries) : entries[i] = "null"

\* data_entries.reduce((acc, curr) => { acc[curr.name] = curr.values; ... }, {}):
\* an entry without name lands under the key "undefined"
reduce_entries(entries) ==
  {IF entries[i] = "noname" THEN "undefined" ELSE entries[i] : i \in 1..Len(entries)}

\* the reduce of geminiService: if (curr && curr.name) acc[curr.name] = ...
reduce_named_entries(entries) ==
  {entries[i] : i \in {j \in 1..Len(entries) : entries[j] \notin {"noname", "null"}}}

\* the fallback data of analyzeProblemWithBackend
FALLBACK_DATA == {"STEP", "STATUS"}

\* the try block throws: frame.state of null, or curr.name of a null entry
throws_in_backend(f) == f.kind = "null" \/ (f.kind = "entries" /\ HasNullEntry(f.entries))

\* state.data after the structural defaults and sanitizeValue
structured_data(f) ==
  IF f.kind = "entries" THEN reduce_entries(f.entries)
  ELSE IF f.kind = "data" THEN f.data
  ELSE {}

\* analyzeProblemWithBackend: the data of the mapped frame
backend_frame_data(f) ==
  IF throws_in_backend(f) THEN FALLBACK_DATA
  ELSE IF structured_data(f) = {} THEN FALLBACK_DATA
  ELSE structured_data(f)

\* analyzeProblemWithBackend, earlier variant: the data of the mapped frame
earlier_frame_data(f) ==
  IF throws_in_backend(f) THEN {} ELSE structured_data(f)

\* generateAlgorithmTrace: the data of the mapped frame; only data_entries is
\* read, and only frame.state of a null frame throws
cloud_frame_data(f) ==
  IF f.kind = "entries" THEN reduce_named_entries(f.entries) ELSE {}

\* frames.filter(f => f && f.state && f.state.data && Object.keys(f.state.data).length > 0)
NonEmptyData(d) == d # {}

\* frames.filter(f => f && f.state && f.state.data), and
\* frames.filter(f => f && f.state && typeof f.state.data === 'object'):
\* an empty object passes both
AnyData(d) == TRUE

\* DEMO_TRACE: two frames, each with the keys max_heap and min_heap
DEMO_TRACE == <<{"max_heap", "min_heap"}, {"max_heap", "min_heap"}>>

Returned(path, frames) ==
  IF frames = <<>>
  THEN [path |-> path, outcome |-> "error", frames |-> <<>>]
  ELSE [path |-> path, outcome |-> "trace", frames |-> frames]

\* analyzeProblemWithBackend of the current apiService.ts
AnalyzeProblemWithBackend ==
  /\ returned.outcome = "none"
  /\ LET frames == [i \in 1..Len(rawFrames) |-> backend_frame_data(rawFrames[i])]
         validFrames == SelectSeq(frames, NonEmptyData)
     IN returned' = Returned("backend", validFrames)
  /\ UNCHANGED rawFrames
  /\ UNCHANGED nonFrameVars

\* analyzeProblemWithBackend of the earlier apiService.ts
AnalyzeProblemWithBackendEarlier ==
  /\ returned.outcome = "none"
  /\ LET frames == [i \in 1..Len(rawFrames) |-> earlier_frame_data(rawFrames[i])]
         validFrames == SelectSeq(frames, AnyData)
     IN returned' = Returned("backend-earlier", validFrames)
  /\ UNCHANGED rawFrames
  /\ UNCHANGED nonFrameVars

\* generateAlgorithmTrace: DEMO_TRACE without a usable key and on every error
GenerateAlgorithmTrace(keyUsable, apiError) ==
  /\ returned.outcome = "none"
  /\ LET frames == [i \in 1..Len(rawFrames) |-> cloud_frame_data(rawFrames[i])]
         validFrames == SelectSeq(frames, AnyData)
     IN returned' =
          IF ~keyUsable \/ apiError \/ validFrames = <<>>
          THEN Returned("cloud-demo", DEMO_TRACE)
          ELSE Returned("cloud", validFrames)
  /\ UNCHANGED rawFrames
  /\ UNCHANGED nonFrameVars

FramesInit ==
  /\ VaultIdle
  /\ KeyIdle
  /\ ServerIdle
  /\ ClientIdle
  /\ rawFrames \in Responses
  /\ returned = NothingReturned
  /\ RepairIdle
  /\ LaterIdle

FramesNext ==
  \/ AnalyzeProblemWithBackend
  \/ AnalyzeProblemWithBackendEarlier
  \/ \E keyUsable \in BOOLEAN, apiError \in BOOLEAN : GenerateAlgorithmTrace(keyUsable, apiError)

SpecFrames == FramesInit /\ [][FramesNext]_vars

(***************************************************************************)
(* narrator.py (_post_process_narrative, _shuffle_quiz_options,            *)
(* _validate_quiz_answer) and the QUIZ FIX of apiService.ts                *)
(***************************************************************************)
\* "When quizzes had fewer than 4 options": the option count padding fills
MIN_OPTIONS == 4

\* the pool the padding draws from
fallback_options ==
  <<"None of the above", "Skip this step", "This step is not needed",
    "Cannot be determined", "All of the above", "Restart the algorithm",
    "Return an error", "Continue without changes">>

\* an option that matches one of the end_option_patterns
IsEndOption(o) ==
  \/ \E i \in 1..Len(fallback_options) : fallback_options[i] = o
  \/ o = "Alternative approach"

IsRegularOption(o) == ~IsEndOption(o)

\* quiz.correct as it arrives: missing, a non-numeric text, a numeric text or
\* a number
Correct(kind, n) == [kind |-> kind, n |-> n]

\* the QUIZ FIX of analyzeProblemWithBackend: undefined/null -> 0, else
\* Number(correct), NaN -> 0
client_fix_correct(c) ==
  IF c.kind = "missing" THEN Correct("num", 0)
  ELSE IF c.kind = "text" THEN Correct("num", 0)
  ELSE Correct("num", c.n)

\* the adapter: a missing or non-numeric correct is coerced to 0
coerce_correct(c) ==
  IF c.kind \in {"missing", "text"} THEN Correct("num", 0) ELSE Correct("num", c.n)

Contains(seq, x) == \E i \in 1..Len(seq) : seq[i] = x

\* the first position of x in seq (x occurs in seq)
IndexOf(seq, x) == CHOOSE i \in 1..Len(seq) : seq[i] = x /\ \A j \in 1..(i - 1) : seq[j] # x

\* the first option of the pool that the quiz does not have yet
next_fallback(options) ==
  fallback_options[CHOOSE i \in 1..Len(fallback_options) :
                     /\ ~Contains(options, fallback_options[i])
                     /\ \A j \in 1..(i - 1) : Contains(options, fallback_options[j])]

RECURSIVE pad_options(_)
\* fewer than MIN_OPTIONS options are padded from the pool
pad_options(options) ==
  IF Len(options) >= MIN_OPTIONS THEN options
  ELSE pad_options(Append(options, next_fallback(options)))

\* the permutations of 1..n: the outcomes of random.shuffle on n options
PermsOf(n) == {f \in [1..n -> 1..n] : \A i \in 1..n, j \in 1..n : f[i] = f[j] => i = j}

InRange(c, options) == c.kind = "num" /\ 0 <= c.n /\ c.n < Len(options)

\* the options after _shuffle_quiz_options: the regular ones permuted by
\* perm, the end options after them
shuffled_options(options, perm) ==
  LET regular == SelectSeq(options, IsRegularOption)
      ends == SelectSeq(options, IsEndOption)
  IN [i \in 1..Len(regular) |-> regular[perm[i]]] \o ends

\* the mutant of remapped_correct: the index is kept as it was before the shuffle
remapped_correct_stale(c, options, shuffled) == c

\* the correct index follows the option it pointed to; an index that points
\* to no option is left as it is
remapped_correct(c, options, shuffled) ==
  IF InRange(c, options)
  THEN Correct("num", IndexOf(shuffled, options[c.n + 1]) - 1)
  ELSE c

\* _validate_quiz_answer: when the frame data decides the answer (derived is
\* its option text) and an option carries it, correct is set to that option
validate_quiz_answer(quiz) ==
  IF quiz.derived # "" /\ Contains(quiz.options, quiz.derived)
  THEN [quiz EXCEPT !.correct = Correct("num", IndexOf(quiz.options, quiz.derived) - 1)]
  ELSE quiz

\* the quiz repair of the adapter: coerce, pad, shuffle and re-map, validate
repair_quiz(quiz, perm) ==
  IF ~quiz.present THEN quiz
  ELSE LET c == coerce_correct(quiz.correct)
           padded == pad_options(quiz.options)
           shuffled == shuffled_options(padded, perm)
       IN validate_quiz_answer(
            [quiz EXCEPT !.options = shuffled,
                         !.correct = remapped_correct(c, padded, shuffled)])

\* the number of regular options repair_quiz shuffles
regular_count(quiz) ==
  IF quiz.present THEN Len(SelectSeq(pad_options(quiz.options), IsRegularOption)) ELSE 0

\* the QUIZ FIX applied to the quiz of a frame of the response
client_fix_quiz(quiz) ==
  IF quiz.present THEN [quiz EXCEPT !.correct = client_fix_correct(@)] ELSE quiz

\* state.data: the named value lists in the order of the dict, each with
\* the number of its values
DataEntry(name, size) == [name |-> name, size |-> size]

\* a highlight: a data key, or an indexed element of one ("x[0]")
KeyRef(name) == [name |-> name, indexed |-> FALSE, index |-> 0]
ElementRef(name, index) == [name |-> name, indexed |-> TRUE, index |-> index]

\* the minimal fallback: {"STEP": [n], "STATUS": ["processing"]}
PLACEHOLDER_DATA == <<DataEntry("STEP", 1), DataEntry("STATUS", 1)>>

\* empty data is filled from the variables of the nearest usable raw trace
\* entry (trace_vars), else with the placeholder
repair_data(frame) ==
  IF frame.data # <<>> THEN frame.data
  ELSE IF frame.trace_vars # <<>> THEN frame.trace_vars
  ELSE PLACEHOLDER_DATA

\* a highlight resolves to a key of data or to an element of its value list
resolves(h, data) ==
  \E i \in 1..Len(data) :
    /\ data[i].name = h.name
    /\ h.indexed => (0 <= h.index /\ h.index < data[i].size)

\* the mutant of repair_highlights: no default highlight is added
repair_highlights_no_default(highlights, data) ==
  LET Valid(h) == resolves(h, data) IN SelectSeq(highlights, Valid)

\* "Filter out highlights referencing non-existent keys", "Add first data key
\* as default highlight if none valid"
repair_highlights(highlights, data) ==
  LET Valid(h) == resolves(h, data)
      kept == SelectSeq(highlights, Valid)
  IN IF kept = <<>> /\ data # <<>> THEN <<KeyRef(data[1].name)>> ELSE kept

\* _post_process_narrative on one frame; perm is the outcome of the shuffle
repair_frame(frame, perm) ==
  LET data == repair_data(frame) IN
  [frame EXCEPT !.data = data,
                !.highlights = repair_highlights(frame.highlights, data),
                !.quiz = repair_quiz(frame.quiz, perm)]

\* the pipeline's answer passes the adapter: a repair pass over the frame
AdapterRepair(perm) ==
  /\ repairPath \in {"none", "adapter"}
  /\ repairPasses < 2
  /\ repairOut' = repair_frame(repairOut, perm)
  /\ repairPasses' = repairPasses + 1
  /\ repairPath' = "adapter"
  /\ UNCHANGED repairIn
  /\ UNCHANGED nonRepairVars

\* pipeline.py, INSTANT PATH: the quiz of a cached result is validated again
ValidateCached ==
  /\ repairPath = "adapter"
  /\ repairOut' = [repairOut EXCEPT !.quiz = IF @.present THEN validate_quiz_answer(@) ELSE @]
  /\ repairPath' = "cached"
  /\ UNCHANGED <<repairIn, repairPasses>>
  /\ UNCHANGED nonRepairVars

\* analyzeProblemWithBackend: the QUIZ FIX on a frame of the response
ClientQuizFix ==
  /\ repairPath # "client"
  /\ repairOut' = [repairOut EXCEPT !.quiz = client_fix_quiz(@)]
  /\ repairPath' = "client"
  /\ UNCHANGED <<repairIn, repairPasses>>
  /\ UNCHANGED nonRepairVars

\* the option texts of the quizzes: three ordinary ones and a catch-all
OptionTexts == {"A", "B", "C", "None of the above"}

NoRepeat(seq) == \A i \in 1..Len(seq), j \in 1..Len(seq) : seq[i] = seq[j] => i = j

OptionLists == {o \in SeqsUpTo(OptionTexts, MaxQuizOptions) : NoRepeat(o)}

Corrects ==
  {Correct("missing", 0), Correct("text", 0), Correct("numstr", 1)}
    \cup {Correct("num", n) : n \in (0 - 1)..MaxQuizOptions}

\* the quizzes the pipeline may deliver; derived is the option text the frame
\* data decides for, "" when the data decides nothing
Quizzes ==
  {[present |-> TRUE, options |-> o, correct |-> c, derived |-> d] :
     o \in OptionLists, c \in Corrects, d \in {"", "A"}}

DataMaps ==
  {<<>>, <<DataEntry("x", 2)>>, <<DataEntry("x", 2), DataEntry("y", 1)>>,
   <<DataEntry("y", 1), DataEntry("x", 2)>>}

Refs == {KeyRef("x"), KeyRef("y"), KeyRef("z"), ElementRef("x", 0), ElementRef("x", 5)}

\* the frames the pipeline may deliver: one with a quiz, or one without a
\* quiz and with any data and highlights
PipelineFrames ==
  {[data |-> <<DataEntry("x", 2)>>, highlights |-> <<KeyRef("x")>>, quiz |-> q,
    trace_vars |-> <<>>] : q \in Quizzes}
  \cup
  {[data |-> d, highlights |-> h, quiz |-> NoQuiz, trace_vars |-> t] :
     d \in DataMaps, h \in SeqsUpTo(Refs, MaxHighlights),
     t \in {<<>>, <<DataEntry("y", 1)>>}}

RepairInit ==
  /\ VaultIdle
  /\ KeyIdle
  /\ ServerIdle
  /\ ClientIdle
  /\ FramesIdle
  /\ LaterIdle
  /\ repairIn \in PipelineFrames
  /\ repairOut = repairIn
  /\ repairPasses = 0
  /\ repairPath = "none"

RepairNext ==
  \/ \E perm \in PermsOf(regular_count(repairOut.quiz)) : AdapterRepair(perm)
  \/ ValidateCached
  \/ ClientQuizFix

SpecRepair == RepairInit /\ [][RepairNext]_vars

(***************************************************************************)
(* The four caching layers: smart router, memory cache, file cache, and    *)
(* the pipeline that fills layers 2 and 3                                  *)
(***************************************************************************)
\* the file cache's "TTL: 7 days"
CACHE_TTL_DAYS == 7
\* the date runs from 0 to MaxDays
MaxDays == 8
\* the cache sees at most MaxCacheCalls analyze and learn calls
MaxCacheCalls == 2

\* a problem as <<problem_text, context_toggles>>
key_of(problem) == generate_cache_key(problem[1], problem[2])

\* layer 1: "Does problem match known algorithm pattern?"
router_has(problem) == normalize_text(problem[1]) \in DOMAIN pattern_library
router_get(problem) == pattern_library[normalize_text(problem[1])]

\* layer 2: the in-process dictionary
memory_has(k) == k \in DOMAIN memory_cache

\* the mutant of file_has: a cache file is served whatever its age
file_has_any_age(k) == k \in DOMAIN file_cache

\* layer 3: the file {hash}.json exists and is not older than the TTL
file_has(k) == k \in DOMAIN file_cache /\ today - file_mtime[k] <= CACHE_TTL_DAYS

Hit(tier, trace, consulted) ==
  [done |-> TRUE, hit |-> TRUE, tier |-> tier, trace |-> trace, consulted |-> consulted]
Miss == [done |-> TRUE, hit |-> FALSE, consulted |-> <<"router", "memory", "disk">>]

\* the layers in their order: the first that has the problem answers
lookup(problem) ==
  LET k == key_of(problem) IN
  IF router_has(problem) THEN Hit("router", router_get(problem), <<"router">>)
  ELSE IF memory_has(k) THEN Hit("memory", memory_cache[k], <<"router", "memory">>)
  ELSE IF file_has(k) THEN Hit("disk", file_cache[k], <<"router", "memory", "disk">>)
  ELSE Miss

\* the mutant of store: the result is entered into the router's table as well
store_also_router(problem, k, t) ==
  [router |-> cache_set(pattern_library, normalize_text(problem[1]), t),
   memory |-> cache_set(memory_cache, k, t),
   disk |-> cache_set(file_cache, k, t),
   mtime |-> cache_set(file_mtime, k, today)]

\* "After completion: Cache result in Layer 2 + Layer 3"
store(problem, k, t) ==
  [router |-> pattern_library,
   memory |-> cache_set(memory_cache, k, t),
   disk |-> cache_set(file_cache, k, t),
   mtime |-> cache_set(file_mtime, k, today)]

\* the mutant of after_learn: the phases of a learn call are cached
after_learn_stores(layer, k, v) == cache_set(layer, k, v)

\* POST /learn runs the educational flow; its result is not cached
after_learn(layer, k, v) == layer

\* the context of a call of user u with the user's own account
ContextOf(u) == from_request(UserCfg(u), u, "request")

\* POST /analyze, seen from the cache: lookup; on a miss the pipeline runs
\* and, when it succeeds, its trace is stored
AnalyzeCall(problem, u, ok) ==
  /\ lastCall.n < MaxCacheCalls
  /\ LET found == lookup(problem)
         k == key_of(problem)
         stored == store(problem, k, trace_of(k, ContextOf(u)))
     IN /\ looked' = [found EXCEPT !.done = TRUE] @@ [n |-> lastCall.n + 1, problem |-> problem]
        /\ IF ~found.hit /\ ok
           THEN /\ pattern_library' = stored.router
                /\ memory_cache' = stored.memory
                /\ file_cache' = stored.disk
                /\ file_mtime' = stored.mtime
           ELSE /\ memory_cache' = cache_after_failure(memory_cache, k, <<>>)
                /\ file_cache' = cache_after_failure(file_cache, k, <<>>)
                /\ UNCHANGED <<pattern_library, file_mtime>>
        /\ lastCall' = [n |-> lastCall.n + 1, mode |-> "analyze", ok |-> found.hit \/ ok]
  /\ UNCHANGED today
  /\ UNCHANGED nonStoreVars

\* POST /learn, seen from the cache
LearnCall(problem, u, ok) ==
  /\ lastCall.n < MaxCacheCalls
  /\ LET k == key_of(problem)
         phases == [trace_of(k, ContextOf(u)) EXCEPT !.agents = 0]
     IN /\ memory_cache' = after_learn(memory_cache, k, phases)
        /\ file_cache' = after_learn(file_cache, k, phases)
        /\ file_mtime' = after_learn(file_mtime, k, today)
  /\ lastCall' = [n |-> lastCall.n + 1, mode |-> "learn", ok |-> ok]
  /\ UNCHANGED <<pattern_library, today, looked>>
  /\ UNCHANGED nonStoreVars

\* the memory cache is "cleared on server restart"; the files persist
CacheRestart ==
  /\ memory_cache # <<>>
  /\ memory_cache' = <<>>
  /\ UNCHANGED file_cache
  /\ UNCHANGED storeVars
  /\ UNCHANGED nonStoreVars

\* a day passes
DayPasses ==
  /\ today < MaxDays
  /\ today' = today + 1
  /\ UNCHANGED <<pattern_library, file_mtime, looked, lastCall>>
  /\ UNCHANGED cacheVars
  /\ UNCHANGED nonStoreVars

\* the problems of the calls: those of the tabs and one the router knows
CacheProblems == Problems \cup {<<<<"A", "a">>, <<>>>>}

CacheInit ==
  /\ VaultIdle
  /\ KeyIdle
  /\ ServerIdle
  /\ ClientIdle
  /\ FramesIdle
  /\ RepairIdle
  /\ LaterIdle

CacheNext ==
  \/ \E problem \in CacheProblems, u \in SessionIds, ok \in BOOLEAN :
       AnalyzeCall(problem, u, ok)
  \/ \E problem \in CacheProblems, u \in SessionIds, ok \in BOOLEAN :
       LearnCall(problem, u, ok)
  \/ CacheRestart
  \/ DayPasses

SpecCache == CacheInit /\ [][CacheNext]_vars

(***************************************************************************)
(* credential_store.py under a missing or rotated key, and the credential  *)
(* resolution of the calls that follows                                    *)
(***************************************************************************)
\* at most MaxStoreCalls store-credentials calls and MaxResolveCalls
\* resolutions are observed
MaxStoreCalls == 2
MaxResolveCalls == 1

KeyStates == {CREDENTIAL_ENCRYPTION_KEY, ROTATED_KEY, NO_KEY}

\* a stored token whose bytes were damaged: no key authenticates it
CORRUPT_TOKEN == [fernet |-> "corrupt", payload |-> NoSecret]

\* the mutant of vault_after_store: the row is written whatever the key
vault_after_store_unchecked(s, cfg) == [vault EXCEPT ![s] = store_row(vault[s], cfg, now)]

\* store: fails closed without a key, the table stays as it is
vault_after_store(s, cfg) ==
  IF fernet_key = NO_KEY THEN vault
  ELSE [vault EXCEPT ![s] = store_row(vault[s], cfg, now)]

\* the ok of the response of store
store_ok(s, cfg) == fernet_key # NO_KEY

\* POST /session/store-credentials, with its response
StoreCall(s, cfg) ==
  /\ storeResult.done => storeResult.n < MaxStoreCalls
  /\ vault' = vault_after_store(s, cfg)
  /\ storeResult' = [done |-> TRUE, n |-> (IF storeResult.done THEN storeResult.n ELSE 0) + 1,
                     session_id |-> s, ok |-> store_ok(s, cfg)]
  /\ lastStore' = IF store_ok(s, cfg)
                  THEN [lastStore EXCEPT ![s] = [stored |-> TRUE, cfg |-> cfg, at |-> now]]
                  ELSE lastStore
  /\ UNCHANGED <<now, got, env_default, fernet_key, resolved>>
  /\ UNCHANGED nonCryptoVars

\* an analyze or learn call resolves its credentials
ResolveCall(mode, s, llm_config) ==
  /\ resolved.done => resolved.n < MaxResolveCalls
  /\ resolved' = [done |-> TRUE, n |-> (IF resolved.done THEN resolved.n ELSE 0) + 1,
                  mode |-> mode, session_id |-> s, llm_config |-> llm_config,
                  row |-> row_of(s), key |-> fernet_key,
                  context |-> resolve_context(s, llm_config)]
  /\ UNCHANGED <<vaultVars, env_default, fernet_key, storeResult>>
  /\ UNCHANGED nonCryptoVars

\* the server is restarted with another value of the key variable
RestartWithKey(k) ==
  /\ k # fernet_key
  /\ fernet_key' = k
  /\ UNCHANGED <<vaultVars, env_default, storeResult, resolved>>
  /\ UNCHANGED nonCryptoVars

\* the encrypted_api_key of a row is damaged in sessions.db
CorruptRecord(s) ==
  /\ vault[s].exists
  /\ vault[s].encrypted_api_key # CORRUPT_TOKEN
  /\ vault' = [vault EXCEPT ![s].encrypted_api_key = CORRUPT_TOKEN]
  /\ UNCHANGED <<now, lastStore, got, env_default, fernet_key, storeResult, resolved>>
  /\ UNCHANGED nonCryptoVars

CryptoInit ==
  /\ VaultIdle
  /\ KeyIdle
  /\ env_default \in {NoConfig, ConfigOf(EnvCfg)}
  /\ memory_cache = <<>>
  /\ file_cache = <<>>
  /\ pc = [h \in SessionIds |-> "idle"]
  /\ req = [h \in SessionIds |-> NoRequest]
  /\ context = [h \in SessionIds |-> NoContext]
  /\ used = [h \in SessionIds |-> NoContext]
  /\ result = [h \in SessionIds |-> NoResult]
  /\ invocations = <<>>
  /\ calls = 0
  /\ ClientIdle
  /\ FramesIdle
  /\ RepairIdle
  /\ StoreIdle
  /\ UiIdle
  /\ fernet_key \in KeyStates
  /\ storeResult = NoStoreResult
  /\ resolved = NoResolution
  /\ LockIdle

CryptoNext ==
  \/ \E s \in SessionIds : StoreCall(s, UserCfg(s))
  \/ \E mode \in {"analyze", "learn"}, h \in SessionIds :
       \E shape \in RequestShapes(h) : ResolveCall(mode, shape[1], shape[2])
  \/ \E k \in KeyStates : RestartWithKey(k)
  \/ \E s \in SessionIds : CorruptRecord(s)

SpecCrypto == CryptoInit /\ [][CryptoNext]_vars

(***************************************************************************)
(* Concurrent handlers: the RLock of the memory cache, the connections to  *)
(* sessions.db, and the awaits of the pipeline and of the validation       *)
(***************************************************************************)
\* the handlers serve at most MaxHandlerCalls calls together
MaxHandlerCalls == 2

\* the calls of the handlers: POST /analyze, /validate-credentials and
\* /session/store-credentials
HandlerKinds == {"analyze", "validate", "store"}

\* the problems of the analyze calls
LockProblems == {<<<<"a">>, <<>>>>}

\* the mutant of lock_after_read: on a miss the lock is kept for the run
lock_after_read_held(h, hit) == IF hit THEN NoHandler ELSE h

\* cache.has / cache.get return: the RLock is released with the operation
lock_after_read(h, hit) == NoHandler

\* the number of calls the handlers of S have served or serve
RECURSIVE calls_served(_)
calls_served(S) ==
  IF S = {} THEN 0
  ELSE LET h == CHOOSE x \in S : TRUE IN
       (IF hcall[h].kind = "none" THEN 0 ELSE hcall[h].n) + calls_served(S \ {h})

\* a call arrives at handler h
BeginCall(h, kind, problem) ==
  /\ hpc[h] \in {"idle", "done"}
  /\ calls_served(SessionIds) < MaxHandlerCalls
  /\ hcall' = [hcall EXCEPT ![h] =
                 [kind |-> kind, problem |-> problem,
                  n |-> (IF hcall[h].kind = "none" THEN 0 ELSE hcall[h].n) + 1,
                  credential |-> FALSE, found |-> NotRead]]
  /\ hpc' = [hpc EXCEPT ![h] = IF kind = "validate" THEN "validating" ELSE "vault"]
  /\ UNCHANGED <<cache_lock, vault_txn, vault, cacheVars, temp_file>>
  /\ UNCHANGED nonLockVars

\* sqlite3.connect: "new connection per query"
OpenVault(h) ==
  /\ hpc[h] = "vault"
  /\ vault_txn = NoHandler
  /\ vault_txn' = h
  /\ hpc' = [hpc EXCEPT ![h] = "vault_open"]
  /\ UNCHANGED <<cache_lock, hcall, vault, cacheVars, temp_file>>
  /\ UNCHANGED nonLockVars

\* the query runs and the connection is closed: an analyze call has read its
\* stored credentials, a store call has written its row
CloseVault(h) ==
  /\ hpc[h] = "vault_open"
  /\ vault_txn = h
  /\ vault_txn' = NoHandler
  /\ IF hcall[h].kind = "store"
     THEN /\ vault' = [vault EXCEPT ![h] = store_row(vault[h], UserCfg(h), now)]
          /\ hpc' = [hpc EXCEPT ![h] = "done"]
          /\ UNCHANGED hcall
     ELSE /\ hcall' = [hcall EXCEPT ![h].credential = resolve_context(h, NoConfig).credential]
          /\ hpc' = [hpc EXCEPT ![h] = "check"]
          /\ UNCHANGED vault
  /\ UNCHANGED <<cache_lock, cacheVars, temp_file>>
  /\ UNCHANGED nonLockVars

\* a cache operation starts: the RLock is taken (it is re-entrant)
AcquireCache(h) ==
  /\ hpc[h] \in {"check", "store"}
  /\ cache_lock \in {NoHandler, h}
  /\ cache_lock' = h
  /\ hpc' = [hpc EXCEPT ![h] = IF hpc[h] = "check" THEN "reading" ELSE "writing"]
  /\ UNCHANGED <<vault_txn, hcall, vault, cacheVars, temp_file>>
  /\ UNCHANGED nonLockVars

\* the cache operation ends. On the way in, cache.get on the memory layer: a
\* hit is returned, a miss goes on to the file layer. After the agents,
\* cache.set on the memory layer; the file is written after it
ReleaseCache(h) ==
  /\ hpc[h] \in {"reading", "writing"}
  /\ cache_lock = h
  /\ LET k == key_of(hcall[h].problem) IN
     IF hpc[h] = "reading"
     THEN /\ cache_lock' = lock_after_read(h, memory_has(k))
          /\ hcall' = [hcall EXCEPT ![h].found =
                         IF memory_has(k)
                         THEN [read |-> TRUE, hit |-> TRUE, tier |-> "memory",
                               trace |-> memory_cache[k]]
                         ELSE @]
          /\ hpc' = [hpc EXCEPT ![h] = IF memory_has(k) THEN "done" ELSE "disk"]
          /\ UNCHANGED cacheVars
     ELSE /\ cache_lock' = NoHandler
          /\ memory_cache' = cache_set(memory_cache, k, trace_of(k, ContextOf(h)))
          /\ hpc' = [hpc EXCEPT ![h] = "file_temp"]
          /\ UNCHANGED <<file_cache, hcall>>
  /\ UNCHANGED <<vault_txn, vault, temp_file>>
  /\ UNCHANGED nonLockVars

\* the file layer is read without the lock: a hit is returned, a miss goes
\* on to the agents, or fails without a credential
ReadDisk(h) ==
  /\ hpc[h] = "disk"
  /\ LET k == key_of(hcall[h].problem)
         hit == k \in DOMAIN file_cache
     IN /\ hcall' = [hcall EXCEPT ![h].found =
                       IF hit
                       THEN [read |-> TRUE, hit |-> TRUE, tier |-> "disk", trace |-> file_cache[k]]
                       ELSE [read |-> TRUE, hit |-> FALSE]]
        /\ hpc' = [hpc EXCEPT ![h] =
                     IF hit \/ ~hcall[h].credential THEN "done" ELSE "pipeline"]
  /\ UNCHANGED <<cache_lock, vault_txn, vault, cacheVars, temp_file>>
  /\ UNCHANGED nonLockVars

\* the first part of the JSON document of a trace: its frames are incomplete
truncated(t) == [t EXCEPT !.agents = 0]

\* the mutant of file_during_write: the document is written into {hash}.json
file_during_write_in_place(layer, k, part) == cache_set(layer, k, part)

\* the document is written to a temporary file: {hash}.json is not touched
file_during_write(layer, k, part) == layer

\* the write of the cache file begins: the first part of the document is in
\* the temporary file
WriteTemp(h) ==
  /\ hpc[h] = "file_temp"
  /\ LET k == key_of(hcall[h].problem)
         part == truncated(trace_of(k, ContextOf(h)))
     IN /\ temp_file' = [temp_file EXCEPT ![h] = [written |-> TRUE, key |-> k, content |-> part]]
        /\ file_cache' = file_during_write(file_cache, k, part)
  /\ hpc' = [hpc EXCEPT ![h] = "file_write"]
  /\ UNCHANGED <<cache_lock, vault_txn, hcall, vault, memory_cache>>
  /\ UNCHANGED nonLockVars

\* the document is complete and the temporary file is renamed to {hash}.json
RenameTemp(h) ==
  /\ hpc[h] = "file_write"
  /\ LET k == key_of(hcall[h].problem) IN
     file_cache' = cache_set(file_cache, k, trace_of(k, ContextOf(h)))
  /\ temp_file' = [temp_file EXCEPT ![h] = NoFile]
  /\ hpc' = [hpc EXCEPT ![h] = "done"]
  /\ UNCHANGED <<cache_lock, vault_txn, hcall, vault, memory_cache>>
  /\ UNCHANGED nonLockVars

\* the awaits of the five agents end: with frames, or with an error
PipelineReturns(h, ok) ==
  /\ hpc[h] = "pipeline"
  /\ hpc' = [hpc EXCEPT ![h] = IF ok THEN "store" ELSE "done"]
  /\ UNCHANGED <<cache_lock, vault_txn, hcall, vault, cacheVars, temp_file>>
  /\ UNCHANGED nonLockVars

\* "Backend validates with LLM provider": the provider answered
ValidationReturns(h) ==
  /\ hpc[h] = "validating"
  /\ hpc' = [hpc EXCEPT ![h] = "done"]
  /\ UNCHANGED <<cache_lock, vault_txn, hcall, vault, cacheVars, temp_file>>
  /\ UNCHANGED nonLockVars

LocksInit ==
  /\ VaultIdle
  /\ KeyIdle
  /\ env_default \in {NoConfig, ConfigOf(EnvCfg)}
  /\ memory_cache = <<>>
  /\ file_cache = <<>>
  /\ pc = [h \in SessionIds |-> "idle"]
  /\ req = [h \in SessionIds |-> NoRequest]
  /\ context = [h \in SessionIds |-> NoContext]
  /\ used = [h \in SessionIds |-> NoContext]
  /\ result = [h \in SessionIds |-> NoResult]
  /\ invocations = <<>>
  /\ calls = 0
  /\ ClientIdle
  /\ FramesIdle
  /\ RepairIdle
  /\ LaterIdle

LocksNext ==
  \/ \E h \in SessionIds, kind \in HandlerKinds, problem \in LockProblems :
       BeginCall(h, kind, problem)
  \/ \E h \in SessionIds : OpenVault(h)
  \/ \E h \in SessionIds : CloseVault(h)
  \/ \E h \in SessionIds : AcquireCache(h)
  \/ \E h \in SessionIds : ReleaseCache(h)
  \/ \E h \in SessionIds : ReadDisk(h)
  \/ \E h \in SessionIds : WriteTemp(h)
  \/ \E h \in SessionIds : RenameTemp(h)
  \/ \E h \in SessionIds, ok \in BOOLEAN : PipelineReturns(h, ok)
  \/ \E h \in SessionIds : ValidationReturns(h)

\* a step of handler h that does not wait for the network
LocalStep(h) ==
  \/ OpenVault(h)
  \/ CloseVault(h)
  \/ AcquireCache(h)
  \/ ReleaseCache(h)
  \/ ReadDisk(h)
  \/ WriteTemp(h)
  \/ RenameTemp(h)

\* the steps of a handler that do not wait for the network are taken; the
\* pipeline and the provider may take any time, or never answer
LocksFairness == \A h \in SessionIds : WF_vars(LocalStep(h))

SpecLocks == LocksInit /\ [][LocksNext]_vars /\ LocksFairness

(***************************************************************************)
(* App.tsx: playback of a trace, the learning flow and the mode lock       *)
(***************************************************************************)
\* the longest trace a request returns
MaxAppFrames == 3

\* geminiService.ts: the demo trace has two frames, the second with a quiz
DEMO_FRAMES == <<FALSE, TRUE>>

\* the traces a request may return: per frame, whether it has a quiz
AppTraces == UNION {[1..n -> BOOLEAN] : n \in 1..MaxAppFrames}

\* what a request may settle with: a trace, or <<>> for a rejected call or a
\* response without frames
AppOutcomes == AppTraces \cup {<<>>}

\* the numbers of phases a learning response may hold
PhaseCounts == {0, 3}

\* frames[currentStep] || frames[0], as an index of appTrace
ActiveIndex == IF currentStep < Len(appTrace) THEN currentStep + 1 ELSE 1

\* the mutant of isBlockedByQuiz: a quiz blocks whether solved or not
isBlockedByQuiz_while_solved == appTrace[ActiveIndex]

\* !!activeFrame?.quiz && !quizSolved
isBlockedByQuiz == appTrace[ActiveIndex] /\ ~quizSolved

ModeOf(active) == IF active THEN "backend" ELSE "cloud"

\* the mutant of run_mode: the mode of the moment
run_mode_unlocked == ModeOf(backendActive)

\* useBackend of runVisualizationWithAlgorithm: the locked mode when there is one
run_mode ==
  IF sessionBackendMode # "null" THEN sessionBackendMode ELSE ModeOf(backendActive)

\* the learning journey is rendered
JourneyShown == showLearningJourney /\ learningPhases > 0 /\ ~showAlgorithmDeepDive

\* the Narrator is rendered (there is always an active frame)
NarratorShown == ~showLearningJourney /\ ~showAlgorithmDeepDive

\* handleAnalyze up to its await; the Sidebar's button is disabled while
\* isLoading
AppHandleAnalyze(isLearningMode) ==
  /\ ~isLoading
  /\ isLoading' = TRUE
  /\ isPlaying' = FALSE
  /\ currentStep' = 0
  /\ quizSolved' = FALSE
  /\ showLearningJourney' = FALSE
  /\ showAlgorithmDeepDive' = FALSE
  /\ sessionBackendMode' = ModeOf(backendActive)
  /\ pending' = [kind |-> IF isLearningMode THEN "learn" ELSE "analyze",
                 mode |-> ModeOf(backendActive)]
  /\ flowMode' = IF isLearningMode THEN ModeOf(backendActive) ELSE flowMode
  /\ event' = "flow"
  /\ UNCHANGED <<appTrace, wasPlayingBeforeQuiz, backendActive, learningPhases, healthCheck>>
  /\ UNCHANGED nonAppVars

\* handleAnalyze after the await of a quick analysis: the trace or, on a
\* failure, the demo trace; finally the lock is released
AnalyzeSettles(data) ==
  /\ pending.kind = "analyze"
  /\ appTrace' = IF data # <<>> THEN data ELSE DEMO_FRAMES
  /\ showLearningJourney' = IF data # <<>> THEN showLearningJourney ELSE FALSE
  /\ isLoading' = FALSE
  /\ sessionBackendMode' = "null"
  /\ pending' = NoPending
  /\ event' = "flow"
  /\ UNCHANGED <<currentStep, isPlaying, quizSolved, wasPlayingBeforeQuiz, backendActive,
                 showAlgorithmDeepDive, learningPhases, healthCheck, flowMode>>
  /\ UNCHANGED nonAppVars

\* handleAnalyze after the await of a learning request: the journey opens, or
\* on a failure the demo trace is shown; finally the lock is kept
LearnSettles(ok, phases) ==
  /\ pending.kind = "learn"
  /\ LET failed == ~ok \/ (pending.mode = "cloud" /\ phases = 0) IN
     /\ learningPhases' = IF failed THEN learningPhases ELSE phases
     /\ showLearningJourney' = ~failed
     /\ appTrace' = IF failed THEN DEMO_FRAMES ELSE appTrace
  /\ isLoading' = FALSE
  /\ pending' = NoPending
  /\ event' = "flow"
  /\ UNCHANGED <<currentStep, isPlaying, quizSolved, wasPlayingBeforeQuiz, backendActive,
                 sessionBackendMode, showAlgorithmDeepDive, healthCheck, flowMode>>
  /\ UNCHANGED nonAppVars

\* runVisualizationWithAlgorithm up to its await
RunVisualizationWithAlgorithm ==
  /\ isLoading' = TRUE
  /\ pending' = [kind |-> "visualize", mode |-> run_mode]

\* the learning journey's onComplete
HandleLearningComplete ==
  /\ JourneyShown
  /\ showLearningJourney' = FALSE
  /\ RunVisualizationWithAlgorithm
  /\ event' = "flow"
  /\ UNCHANGED <<appTrace, currentStep, isPlaying, quizSolved, wasPlayingBeforeQuiz,
                 backendActive, sessionBackendMode, showAlgorithmDeepDive, learningPhases,
                 healthCheck, flowMode>>
  /\ UNCHANGED nonAppVars

\* the learning journey's onLearnAlgorithm: the deep dive opens
HandleLearnAlgorithm ==
  /\ JourneyShown
  /\ showLearningJourney' = FALSE
  /\ showAlgorithmDeepDive' = TRUE
  /\ event' = "flow"
  /\ UNCHANGED <<appTrace, currentStep, isPlaying, quizSolved, wasPlayingBeforeQuiz, isLoading,
                 backendActive, sessionBackendMode, learningPhases, pending, healthCheck,
                 flowMode>>
  /\ UNCHANGED nonAppVars

\* the deep dive's onComplete and onSkip
HandleAlgorithmDeepDiveComplete ==
  /\ showAlgorithmDeepDive
  /\ showAlgorithmDeepDive' = FALSE
  /\ RunVisualizationWithAlgorithm
  /\ event' = "flow"
  /\ UNCHANGED <<appTrace, currentStep, isPlaying, quizSolved, wasPlayingBeforeQuiz,
                 backendActive, sessionBackendMode, showLearningJourney, learningPhases,
                 healthCheck, flowMode>>
  /\ UNCHANGED nonAppVars

HandleAlgorithmDeepDiveSkip ==
  /\ showAlgorithmDeepDive
  /\ showAlgorithmDeepDive' = FALSE
  /\ RunVisualizationWithAlgorithm
  /\ event' = "flow"
  /\ UNCHANGED <<appTrace, currentStep, isPlaying, quizSolved, wasPlayingBeforeQuiz,
                 backendActive, sessionBackendMode, showLearningJourney, learningPhases,
                 healthCheck, flowMode>>
  /\ UNCHANGED nonAppVars

\* runVisualizationWithAlgorithm after its await; finally the lock is released
VisualizationSettles(data) ==
  /\ pending.kind = "visualize"
  /\ appTrace' = IF data # <<>> THEN data ELSE DEMO_FRAMES
  /\ isLoading' = FALSE
  /\ sessionBackendMode' = "null"
  /\ pending' = NoPending
  /\ event' = "flow"
  /\ UNCHANGED <<currentStep, isPlaying, quizSolved, wasPlayingBeforeQuiz, backendActive,
                 showLearningJourney, showAlgorithmDeepDive, learningPhases, healthCheck,
                 flowMode>>
  /\ UNCHANGED nonAppVars

\* onReset of the ErrorBoundary around the learning journey
JourneyErrorReset ==
  /\ JourneyShown
  /\ showLearningJourney' = FALSE
  /\ learningPhases' = 0
  /\ event' = "flow"
  /\ UNCHANGED <<appTrace, currentStep, isPlaying, quizSolved, wasPlayingBeforeQuiz, isLoading,
                 backendActive, sessionBackendMode, showAlgorithmDeepDive, pending, healthCheck,
                 flowMode>>
  /\ UNCHANGED nonAppVars

\* onReset of the ErrorBoundary around the deep dive
DeepDiveErrorReset ==
  /\ showAlgorithmDeepDive
  /\ showAlgorithmDeepDive' = FALSE
  /\ event' = "flow"
  /\ UNCHANGED <<appTrace, currentStep, isPlaying, quizSolved, wasPlayingBeforeQuiz, isLoading,
                 backendActive, sessionBackendMode, showLearningJourney, learningPhases, pending,
                 healthCheck, flowMode>>
  /\ UNCHANGED nonAppVars

\* checkBackend up to its fetch: not started while a request or a learning
\* view is on
CheckBackend ==
  /\ ~healthCheck
  /\ ~(isLoading \/ showLearningJourney \/ showAlgorithmDeepDive)
  /\ healthCheck' = TRUE
  /\ event' = "flow"
  /\ UNCHANGED <<appTrace, currentStep, isPlaying, quizSolved, wasPlayingBeforeQuiz, isLoading,
                 backendActive, sessionBackendMode, showLearningJourney, showAlgorithmDeepDive,
                 learningPhases, pending, flowMode>>
  /\ UNCHANGED nonAppVars

\* the fetch of checkBackend settles, whenever that is
CheckBackendReturns(ok) ==
  /\ healthCheck
  /\ healthCheck' = FALSE
  /\ backendActive' = ok
  /\ event' = "flow"
  /\ UNCHANGED <<appTrace, currentStep, isPlaying, quizSolved, wasPlayingBeforeQuiz, isLoading,
                 sessionBackendMode, showLearningJourney, showAlgorithmDeepDive, learningPhases,
                 pending, flowMode>>
  /\ UNCHANGED nonAppVars

\* the flow and health variables, which playback leaves alone
flowVars ==
  <<appTrace, isLoading, backendActive, sessionBackendMode, showLearningJourney,
    showAlgorithmDeepDive, learningPhases, pending, healthCheck, flowMode>>

\* onPlayPause; the play button is disabled while isBlockedByQuiz
OnPlayPause ==
  /\ ~isBlockedByQuiz
  /\ wasPlayingBeforeQuiz' = IF ~isPlaying /\ isBlockedByQuiz THEN TRUE ELSE wasPlayingBeforeQuiz
  /\ isPlaying' = ~isPlaying
  /\ event' = "onPlayPause"
  /\ UNCHANGED <<currentStep, quizSolved, flowVars>>
  /\ UNCHANGED nonAppVars

\* handleNext, called by the interval, which runs while isPlaying and not
\* isBlockedByQuiz
HandleNext ==
  /\ isPlaying /\ ~isBlockedByQuiz
  /\ IF currentStep < Len(appTrace) - 1
     THEN /\ currentStep' = currentStep + 1
          /\ quizSolved' = FALSE
          /\ UNCHANGED isPlaying
     ELSE /\ isPlaying' = FALSE
          /\ UNCHANGED <<currentStep, quizSolved>>
  /\ event' = "handleNext"
  /\ UNCHANGED <<wasPlayingBeforeQuiz, flowVars>>
  /\ UNCHANGED nonAppVars

\* onStepChange(s)
OnStepChange(s) ==
  /\ currentStep' = s
  /\ isPlaying' = FALSE
  /\ quizSolved' = FALSE
  /\ UNCHANGED <<wasPlayingBeforeQuiz, flowVars>>
  /\ UNCHANGED nonAppVars

\* the progress slider: a range input from 0 to totalSteps - 1, never disabled
SliderChange(s) ==
  /\ s \in 0..(Len(appTrace) - 1)
  /\ s # currentStep
  /\ OnStepChange(s)
  /\ event' = "slider"

\* the back button
StepBack ==
  /\ currentStep # 0
  /\ OnStepChange(IF currentStep - 1 > 0 THEN currentStep - 1 ELSE 0)
  /\ event' = "back"

\* the forward button, disabled on the last frame and while isBlockedByQuiz
StepForward ==
  /\ currentStep # Len(appTrace) - 1
  /\ ~isBlockedByQuiz
  /\ OnStepChange(IF currentStep + 1 < Len(appTrace) - 1 THEN currentStep + 1
                  ELSE Len(appTrace) - 1)
  /\ event' = "forward"

\* onReset
OnReset ==
  /\ currentStep' = 0
  /\ isPlaying' = FALSE
  /\ quizSolved' = FALSE
  /\ event' = "onReset"
  /\ UNCHANGED <<wasPlayingBeforeQuiz, flowVars>>
  /\ UNCHANGED nonAppVars

\* handleQuizCorrect: the Narrator reports the correct option of the active
\* frame's quiz (the 500 ms delay of the resumption is not modelled)
HandleQuizCorrect ==
  /\ NarratorShown
  /\ appTrace[ActiveIndex]
  /\ ~quizSolved
  /\ quizSolved' = TRUE
  /\ isPlaying' = IF wasPlayingBeforeQuiz THEN TRUE ELSE isPlaying
  /\ wasPlayingBeforeQuiz' = FALSE
  /\ event' = "handleQuizCorrect"
  /\ UNCHANGED <<currentStep, flowVars>>
  /\ UNCHANGED nonAppVars

\* onSkipQuiz: the Narrator's Bypass button
OnSkipQuiz ==
  /\ NarratorShown
  /\ appTrace[ActiveIndex]
  /\ ~quizSolved
  /\ quizSolved' = TRUE
  /\ isPlaying' = IF wasPlayingBeforeQuiz THEN TRUE ELSE isPlaying
  /\ event' = "onSkipQuiz"
  /\ UNCHANGED <<currentStep, wasPlayingBeforeQuiz, flowVars>>
  /\ UNCHANGED nonAppVars

AppInit ==
  /\ VaultIdle
  /\ KeyIdle
  /\ ServerIdle
  /\ ClientIdle
  /\ FramesIdle
  /\ RepairIdle
  /\ StoreIdle
  /\ CryptoIdle
  /\ LockIdle
  /\ ApiIdle
  /\ AppIdle

AppNext ==
  \/ \E isLearningMode \in BOOLEAN : AppHandleAnalyze(isLearningMode)
  \/ \E data \in AppOutcomes : AnalyzeSettles(data)
  \/ \E ok \in BOOLEAN, phases \in PhaseCounts : LearnSettles(ok, phases)
  \/ HandleLearningComplete
  \/ HandleLearnAlgorithm
  \/ HandleAlgorithmDeepDiveComplete
  \/ HandleAlgorithmDeepDiveSkip
  \/ \E data \in AppOutcomes : VisualizationSettles(data)
  \/ JourneyErrorReset
  \/ DeepDiveErrorReset
  \/ CheckBackend
  \/ \E ok \in BOOLEAN : CheckBackendReturns(ok)
  \/ OnPlayPause
  \/ HandleNext
  \/ \E s \in 0..(MaxAppFrames - 1) : SliderChange(s)
  \/ StepBack
  \/ StepForward
  \/ OnReset
  \/ HandleQuizCorrect
  \/ OnSkipQuiz

\* the interval of the auto-play fires while it is set
AppFairness == WF_vars(HandleNext)

SpecApp == AppInit /\ [][AppNext]_vars /\ AppFairness

(***************************************************************************)
(* apiService.ts: the session id of the tab and the timeout of a call      *)
(***************************************************************************)
\* the values crypto.randomUUID() may return
UUIDs == {"uuid-1", "uuid-2"}

\* the functions of apiService.ts that send one request with getSessionId()
SessionEndpoints ==
  {"providers", "validate-credentials", "session/store-credentials",
   "session/credentials", "session/delete"}

\* getSessionId() returning id: the stored id, or a new one that is stored
GetSessionId(id) ==
  /\ IF sessionStorage # "" THEN id = sessionStorage ELSE id \in UUIDs
  /\ sessionStorage' = id

\* a request as the backend sees it; session_id "" when the header is missing
Request(endpoint, session_id) == [endpoint |-> endpoint, session_id |-> session_id]

\* fetchProviders, validateCredentials, storeSessionCredentials,
\* checkSessionCredentials, deleteSessionCredentials
SessionRequest(endpoint) ==
  /\ \E id \in UUIDs :
       /\ GetSessionId(id)
       /\ sentRequests' = sentRequests \cup {Request(endpoint, id)}
  /\ UNCHANGED <<apiCall, timer, elapsed>>
  /\ UNCHANGED nonApiVars

\* loadAlgorithmData of AlgorithmDeepDive: POST /algorithm/generate
LoadAlgorithmData ==
  /\ sentRequests' = sentRequests \cup {Request("algorithm/generate", "")}
  /\ UNCHANGED <<sessionStorage, apiCall, timer, elapsed>>
  /\ UNCHANGED nonApiVars

\* checkBackend of App: GET /
HealthRequest ==
  /\ sentRequests' = sentRequests \cup {Request("", "")}
  /\ UNCHANGED <<sessionStorage, apiCall, timer, elapsed>>
  /\ UNCHANGED nonApiVars

\* the clock runs for at most MaxElapsed minutes after a call began
MaxElapsed == 4

\* setTimeout(() => controller.abort(), 120000), in minutes
ANALYZE_TIMEOUT == 2
\* setTimeout(() => controller.abort(), 180000), in minutes
LEARN_TIMEOUT == 3

timeout_of(fn) == IF fn = "learn" THEN LEARN_TIMEOUT ELSE ANALYZE_TIMEOUT

\* the timer's callback is due: it runs before anything that comes later
TimerDue == timer.armed /\ elapsed >= timeout_of(apiCall.fn)

\* clearTimeout(timeoutId) after the fetch resolved
timer_after_response(t) == [t EXCEPT !.armed = FALSE]

\* the mutant of timer_after_catch: the catch block leaves the timer alone
timer_after_catch_kept(t) == t

\* clearTimeout(timeoutId) in the catch block
timer_after_catch(t) == [t EXCEPT !.armed = FALSE]

\* analyzeProblemWithBackend / learnProblemWithBackend up to the await of fetch
BeginApiCall(fn) ==
  /\ apiCall.stage \in {"idle", "settled"}
  /\ ~timer.armed
  /\ timer' = [armed |-> TRUE, aborted |-> FALSE]
  /\ elapsed' = 0
  /\ apiCall' = [stage |-> "fetching", fn |-> fn, outcome |-> "none"]
  /\ \E id \in UUIDs :
       /\ GetSessionId(id)
       /\ sentRequests' = sentRequests \cup {Request(fn, id)}
  /\ UNCHANGED nonApiVars

\* a minute passes; a due timer runs first
MinutePasses ==
  /\ apiCall.stage # "idle"
  /\ elapsed < MaxElapsed
  /\ ~TimerDue
  /\ elapsed' = elapsed + 1
  /\ UNCHANGED <<sessionStorage, sentRequests, apiCall, timer>>
  /\ UNCHANGED nonApiVars

\* the timer's callback: controller.abort(); a pending fetch rejects with an
\* AbortError, which the catch block turns into the timeout error
TimerFires ==
  /\ TimerDue
  /\ IF apiCall.stage \in {"fetching", "reading"}
     THEN /\ apiCall' = [apiCall EXCEPT !.stage = "settled", !.outcome = "timeout"]
          /\ timer' = timer_after_catch([armed |-> FALSE, aborted |-> TRUE])
     ELSE /\ timer' = [armed |-> FALSE, aborted |-> TRUE]
          /\ UNCHANGED apiCall
  /\ UNCHANGED <<sessionStorage, sentRequests, elapsed>>
  /\ UNCHANGED nonApiVars

\* the fetch resolves: the timer is cleared; a response that is not ok is
\* thrown as an error through the catch block
ResponseArrives(ok) ==
  /\ apiCall.stage = "fetching"
  /\ ~TimerDue
  /\ IF ok
     THEN /\ apiCall' = [apiCall EXCEPT !.stage = "reading"]
          /\ timer' = timer_after_response(timer)
     ELSE /\ apiCall' = [apiCall EXCEPT !.stage = "settled", !.outcome = "http_error"]
          /\ timer' = timer_after_catch(timer_after_response(timer))
  /\ UNCHANGED <<sessionStorage, sentRequests, elapsed>>
  /\ UNCHANGED nonApiVars

\* the fetch rejects for a reason other than the abort
NetworkError ==
  /\ apiCall.stage = "fetching"
  /\ ~TimerDue
  /\ apiCall' = [apiCall EXCEPT !.stage = "settled", !.outcome = "network_error"]
  /\ timer' = timer_after_catch(timer)
  /\ UNCHANGED <<sessionStorage, sentRequests, elapsed>>
  /\ UNCHANGED nonApiVars

\* response.json() resolves and the call returns its data, or the body has
\* no valid frames and the call throws through the catch block
BodyArrives(usable) ==
  /\ apiCall.stage = "reading"
  /\ ~TimerDue
  /\ IF usable
     THEN /\ apiCall' = [apiCall EXCEPT !.stage = "settled", !.outcome = "data"]
          /\ UNCHANGED timer
     ELSE /\ apiCall' = [apiCall EXCEPT !.stage = "settled", !.outcome = "no_frames"]
          /\ timer' = timer_after_catch(timer)
  /\ UNCHANGED <<sessionStorage, sentRequests, elapsed>>
  /\ UNCHANGED nonApiVars

ApiInit ==
  /\ VaultIdle
  /\ KeyIdle
  /\ ServerIdle
  /\ ClientIdle
  /\ FramesIdle
  /\ RepairIdle
  /\ StoreIdle
  /\ CryptoIdle
  /\ LockIdle
  /\ AppIdle
  /\ ApiIdle

ApiNext ==
  \/ \E endpoint \in SessionEndpoints : SessionRequest(endpoint)
  \/ LoadAlgorithmData
  \/ HealthRequest
  \/ \E fn \in {"analyze", "learn"} : BeginApiCall(fn)
  \/ MinutePasses
  \/ TimerFires
  \/ \E ok \in BOOLEAN : ResponseArrives(ok)
  \/ NetworkError
  \/ \E usable \in BOOLEAN : BodyArrives(usable)

SpecApi == ApiInit /\ [][ApiNext]_vars

(***************************************************************************)
(* Properties of the cache key                                             *)
(***************************************************************************)
IsPermutation(p, q) ==
  /\ Len(p) = Len(q)
  /\ \A x \in ToggleSet :
       Cardinality({i \in 1..Len(p) : p[i] = x}) = Cardinality({i \in 1..Len(q) : q[i] = x})

\* the text without any whitespace, folded to lower case
RECURSIVE Squeeze(_)
Squeeze(t) ==
  IF t = <<>> THEN <<>>
  ELSE IF IsSpace(Head(t)) THEN Squeeze(Tail(t))
  ELSE <<LowerChar(Head(t))>> \o Squeeze(Tail(t))

\* t and u differ only in letter casing and whitespace (anywhere in the text)
SameUpToCaseAndWhitespace(t, u) == Squeeze(t) = Squeeze(u)

\* the part of t between its first and its last non-blank character
Core(t) ==
  LET solid == {i \in 1..Len(t) : ~IsSpace(t[i])} IN
  IF solid = {} THEN <<>>
  ELSE LET first == CHOOSE i \in solid : \A j \in solid : i <= j
           last == CHOOSE i \in solid : \A j \in solid : j <= i
       IN [i \in 1..(last - first + 1) |-> t[first + i - 1]]

\* t and u differ only in letter casing and in leading or trailing whitespace
SameUpToCaseAndOuterWhitespace(t, u) ==
  /\ Len(Core(t)) = Len(Core(u))
  /\ \A i \in 1..Len(Core(t)) : LowerChar(Core(t)[i]) = LowerChar(Core(u)[i])

\* C3 as stated: texts that differ only in letter casing and whitespace, with
\* permuted constraint lists, get the same cache key.
CacheKeyIgnoresAllWhitespace ==
  keyOut # <<>> =>
    \A t \in Texts, c \in ToggleLists :
      (SameUpToCaseAndWhitespace(keyText, t) /\ IsPermutation(keyToggles, c))
        => generate_cache_key(t, c) = keyOut

\* C3 amended: texts that differ only in letter casing and in leading or
\* trailing whitespace, with permuted constraint lists, get the same cache key.
CacheKeyDeterminism ==
  keyOut # <<>> =>
    \A t \in Texts, c \in ToggleLists :
      (SameUpToCaseAndOuterWhitespace(keyText, t) /\ IsPermutation(keyToggles, c))
        => generate_cache_key(t, c) = keyOut

\* C3 witness: a key was computed for a text with an upper-case letter and a
\* blank at one end and for at least two constraints, so that a differently
\* cased and padded text and another order of the constraints exist.
CacheKeyDeterminismWitness ==
  /\ keyOut # <<>>
  /\ Len(keyToggles) >= 2
  /\ ToggleRank(keyToggles[1]) > ToggleRank(keyToggles[2])
  /\ \E i \in 1..Len(keyText) : keyText[i] = "A"
  /\ keyText # <<>> /\ IsSpace(keyText[1])
  /\ \E t \in Texts : t # keyText /\ SameUpToCaseAndOuterWhitespace(keyText, t)

(***************************************************************************)
(* Properties of the credential store                                      *)
(***************************************************************************)
AnySession == SessionIds \cup {ANONYMOUS}

\* C7: for every session s whose most recent store (overwrites included) was
\* at time T and was not deleted since, get_credentials(s) returns the stored
\* credential at every time before T + 24h and NotFound at every time after
\* T + 24h, whether the expired row was swept or is still in the table.
VaultTTL ==
  \A s \in SessionIds :
    lastStore[s].stored =>
      /\ now < lastStore[s].at + TTL_HOURS =>
           /\ get_credentials(s).exists
           /\ get_credentials(s).api_key = lastStore[s].cfg.api_key
      /\ now > lastStore[s].at + TTL_HOURS => get_credentials(s) = NotFound

\* C7 witness: a record overwritten after time 0 has expired and its row is
\* still in the table (no sweep ran), and the read is NotFound.
VaultTTLWitness ==
  \E s \in SessionIds :
    /\ lastStore[s].stored /\ lastStore[s].at > 0
    /\ now > lastStore[s].at + TTL_HOURS
    /\ vault[s].exists
    /\ got = [session |-> s, result |-> NotFound]

\* C8: get_credentials(s) returns the provider, the model and the decrypted
\* secret of the most recent store of s, and NotFound for every session
\* (the anonymous one included) that has no stored record of its own.
VaultOwnRecordOnly ==
  \A s \in AnySession :
    LET c == get_credentials(s) IN
    /\ c.exists =>
         /\ s \in SessionIds
         /\ lastStore[s].stored
         /\ c.provider = lastStore[s].cfg.provider
         /\ c.model = lastStore[s].cfg.model
         /\ c.api_key = lastStore[s].cfg.api_key
    /\ (s \in SessionIds /\ lastStore[s].stored /\ lastStore[s].at = now) => c.exists
    /\ (s \in SessionIds /\ ~lastStore[s].stored) => c = NotFound

\* C8 witness: one session reads back its own record while another session,
\* which stored nothing, was just answered NotFound.
VaultOwnRecordOnlyWitness ==
  \E s \in SessionIds, t \in SessionIds :
    /\ s # t
    /\ get_credentials(s).exists
    /\ get_credentials(s).api_key = SecretOf(t)
    /\ ~lastStore[t].stored
    /\ got = [session |-> t, result |-> NotFound]

(***************************************************************************)
(* Properties of the analyze endpoint                                      *)
(***************************************************************************)
Explicit(llm_config) == llm_config.present /\ llm_config.api_key # NoSecret

HasLiveRecord(s) ==
  /\ s \in SessionIds
  /\ lastStore[s].stored
  /\ now < lastStore[s].at + TTL_HOURS

SameAccount(ctx, cfg) ==
  /\ ctx.credential
  /\ ctx.provider = cfg.provider
  /\ ctx.model = cfg.model
  /\ ctx.api_key = cfg.api_key

AllRequestConfigs == UNION {RequestConfigs(h) : h \in SessionIds}

\* C2: resolve_context(session_id, llm_config) uses the request's explicit
\* configuration verbatim whatever the vault holds; else the unexpired vault
\* record of the session; else the default configuration when present; and
\* yields no credential (NoCredential) exactly when none of the three exists.
ResolvePrecedence ==
  \A s \in AnySession : \A cfg \in AllRequestConfigs :
    LET ctx == resolve_context(s, cfg) IN
    /\ ctx.session_id = s
    /\ Explicit(cfg) => SameAccount(ctx, cfg)
    /\ (~Explicit(cfg) /\ HasLiveRecord(s)) => SameAccount(ctx, lastStore[s].cfg)
    /\ (~Explicit(cfg) /\ ~HasLiveRecord(s) /\ env_default.present) =>
         SameAccount(ctx, env_default)
    /\ ~ctx.credential <=>
         (~Explicit(cfg) /\ ~HasLiveRecord(s) /\ ~env_default.present)

\* C2 witness: one call was resolved from its request although the vault
\* holds a live record of its session with another key, and another call,
\* whose session has an expired record only, ended with NoCredential.
ResolvePrecedenceWitness ==
  \E h \in SessionIds, g \in SessionIds :
    /\ h # g
    /\ context[h].resolved /\ context[h].source = "request"
    /\ get_credentials(req[h].session_id).exists
    /\ get_credentials(req[h].session_id).api_key # context[h].api_key
    /\ req[g].present /\ req[g].session_id = g
    /\ vault[g].exists /\ ~HasLiveRecord(g)
    /\ result[g] = [kind |-> "error", error |-> "NoCredential"]

InFlight(h) == pc[h] \in {"resolved", "running"}

\* the pipeline run of tab h holds the context resolved for h's own request
OwnContextInUse ==
  \A h \in SessionIds :
    pc[h] = "running" =>
      /\ used[h] = context[h]
      /\ used[h].credential
      /\ used[h].session_id = req[h].session_id
      /\ Explicit(req[h].llm_config) => SameAccount(used[h], req[h].llm_config)

\* no step of any call changes the context of another call in flight, and a
\* run answers with the provider and model of its own context
OwnContextKept ==
  \A h \in SessionIds :
    /\ (InFlight(h) /\ InFlight(h)') => context'[h] = context[h]
    /\ (pc[h] = "running" /\ pc'[h] = "running") => used'[h] = used[h]
    /\ (pc[h] = "running" /\ pc'[h] = "done" /\ result'[h].kind = "trace") =>
         /\ result'[h].trace.provider_used = context[h].provider
         /\ result'[h].trace.model_used = context[h].model
         /\ result'[h].trace.session_id = context[h].session_id

\* C1: under every interleaving of the steps of concurrent analyze calls, the
\* pipeline run of each call is given exactly the provider, model and secret
\* resolved for that call, never those resolved for another call.
RequestIsolation == []OwnContextInUse /\ [][OwnContextKept]_vars

\* C1 witness: two calls with different sessions, providers and secrets run
\* their pipelines at the same time, each with its own context.
RequestIsolationWitness ==
  \E h \in SessionIds, g \in SessionIds :
    /\ pc[h] = "running" /\ pc[g] = "running"
    /\ used[h].session_id # used[g].session_id
    /\ used[h].provider # used[g].provider
    /\ used[h].api_key # used[g].api_key
    /\ used[h].api_key = context[h].api_key
    /\ used[g].api_key = context[g].api_key

(***************************************************************************)
(* Properties of the shared trace cache                                    *)
(***************************************************************************)
KeyFor(r) == generate_cache_key(r.problem_text, r.context_toggles)

Cached(k) == k \in DOMAIN memory_cache \/ k \in DOMAIN file_cache

CachedTrace(k) == IF k \in DOMAIN memory_cache THEN memory_cache[k] ELSE file_cache[k]

CountOf(k) == IF k \in DOMAIN invocations THEN invocations[k] ELSE 0

HitOf(k) == [kind |-> "trace", trace |-> CachedTrace(k), route_path |-> "cache"]

\* the lookup step of tab h's call
Lookup(h) == pc[h] = "resolved" /\ pc'[h] # "resolved"

\* requests with the same text and constraints have the same key, whatever
\* their session and llm_config
KeyIgnoresCaller ==
  \A h \in SessionIds, g \in SessionIds :
    (/\ req[h].present /\ req[g].present
     /\ req[h].problem_text = req[g].problem_text
     /\ req[h].context_toggles = req[g].context_toggles) =>
      request_key(req[h]) = request_key(req[g])

\* a lookup whose text and constraints have a cached trace is answered with
\* it, whoever the caller is and whoever cached it
HitForAnySession ==
  \A h \in SessionIds :
    (Lookup(h) /\ Cached(KeyFor(req[h]))) => result'[h] = HitOf(KeyFor(req[h]))

\* C4: the cache key is a function of (problem text, constraints) only, so
\* requests of different sessions, providers, models or secrets with the same
\* text and constraints share a key, and a trace cached by one session's call
\* is served as a hit to a later call of any other session.
CacheSharedAcrossSessions == []KeyIgnoresCaller /\ [][HitForAnySession]_vars

\* C4 witness: tab h was served from the cache a trace that the call of
\* another session generated with another provider and secret, for a text
\* that differs from h's in casing and whitespace.
CacheSharedAcrossSessionsWitness ==
  \E h \in SessionIds, g \in SessionIds :
    /\ pc[h] = "done" /\ pc[g] = "done"
    /\ result[g].kind = "trace" /\ result[g].route_path = "llm"
    /\ result[h].kind = "trace" /\ result[h].route_path = "cache"
    /\ result[h].trace = result[g].trace
    /\ req[h].session_id # req[g].session_id
    /\ req[h].problem_text # req[g].problem_text
    /\ context[h].credential
    /\ context[h].provider # result[h].trace.provider_used
    /\ context[h].api_key # context[g].api_key

\* a successful run stores its trace in both layers under the request's key
StoredOnSuccess ==
  \A h \in SessionIds :
    (pc[h] = "running" /\ pc'[h] = "done" /\ result'[h].kind = "trace") =>
      /\ KeyFor(req[h]) \in DOMAIN memory_cache'
      /\ KeyFor(req[h]) \in DOMAIN file_cache'
      /\ memory_cache'[KeyFor(req[h])] = result'[h].trace
      /\ file_cache'[KeyFor(req[h])] = result'[h].trace

\* a lookup of a cached key returns the cached trace and starts no run
HitStartsNoRun ==
  \A h \in SessionIds :
    (Lookup(h) /\ Cached(KeyFor(req[h]))) =>
      /\ pc'[h] = "done"
      /\ result'[h] = HitOf(KeyFor(req[h]))
      /\ invocations' = invocations

\* while a key is cached its entry stays and its run count does not change
CountKeptWhileCached ==
  \A k \in (DOMAIN memory_cache) \cup (DOMAIN file_cache) :
    /\ k \in DOMAIN file_cache'
    /\ k \in DOMAIN invocations'
    /\ invocations'[k] = CountOf(k)

\* C5: after a call misses and its pipeline succeeds the trace is stored, and
\* every later call with the same key, from any session, returns the cached
\* trace without a pipeline run: the run count of the key stays as it is (1
\* after a single miss) while the entry is in the cache.
CachedAfterSuccess == [][StoredOnSuccess /\ HitStartsNoRun /\ CountKeptWhileCached]_vars

\* C5 witness: both calls are over, the second was answered from the cache
\* after a server restart had emptied the memory layer, and the pipeline ran
\* once for the key.
CachedAfterSuccessWitness ==
  \E h \in SessionIds :
    /\ calls = MaxCalls
    /\ \A g \in SessionIds : pc[g] \in {"idle", "done"}
    /\ result[h].kind = "trace" /\ result[h].route_path = "cache"
    /\ memory_cache = <<>>
    /\ CountOf(KeyFor(req[h])) = 1
    /\ DOMAIN invocations = {KeyFor(req[h])}

\* a step that ends a call in an error leaves both layers as they are
ErrorLeavesCache ==
  \A h \in SessionIds :
    (pc[h] # "done" /\ pc'[h] = "done" /\ result'[h].kind = "error") =>
      /\ memory_cache' = memory_cache
      /\ file_cache' = file_cache

\* the layers change only when a run succeeds or the server restarts, and
\* hold traces of complete runs only
OnlySuccessWrites ==
  /\ (memory_cache' # memory_cache \/ file_cache' # file_cache) =>
       \/ \E h \in SessionIds :
            pc[h] = "running" /\ pc'[h] = "done" /\ result'[h].kind = "trace"
       \/ memory_cache' = <<>> /\ file_cache' = file_cache
  /\ \A k \in DOMAIN memory_cache' : memory_cache'[k].agents = NUM_AGENTS
  /\ \A k \in DOMAIN file_cache' : file_cache'[k].agents = NUM_AGENTS

\* a lookup of a key that is not cached, by a call that has a credential,
\* starts a pipeline run
MissRunsPipeline ==
  \A h \in SessionIds :
    (Lookup(h) /\ ~Cached(KeyFor(req[h])) /\ context[h].credential) =>
      /\ pc'[h] = "running"
      /\ KeyFor(req[h]) \in DOMAIN invocations'
      /\ invocations'[KeyFor(req[h])] = CountOf(KeyFor(req[h])) + 1

\* C6: on every path where a call ends in an error (NoCredential,
\* ProviderError, Timeout, MalformedOutput) the memory and the file layer are
\* as before: no failure and no partial trace is cached, and a later call
\* with the same key misses again and runs the pipeline again.
NoCacheOnError == [][ErrorLeavesCache /\ OnlySuccessWrites /\ MissRunsPipeline]_vars

\* C6 witness: the run of one call timed out after four agents, the other
\* call has the same key, missed too and is in the second run for that key.
NoCacheOnErrorWitness ==
  \E h \in SessionIds, g \in SessionIds :
    /\ result[h] = [kind |-> "error", error |-> "Timeout"]
    /\ pc[h] = "done" /\ pc[g] = "running"
    /\ KeyFor(req[g]) = KeyFor(req[h])
    /\ ~Cached(KeyFor(req[h]))
    /\ CountOf(KeyFor(req[h])) = 2

(***************************************************************************)
(* Properties of the credential flow of the client                         *)
(***************************************************************************)
\* C9: the plaintext secret exists only inside the validation call: the vault
\* rows hold the encrypted secret only, the session-credentials query returns
\* at most (exists, provider, model), the browser's localStorage holds no
\* secret and no analyze, learn or session-credentials request carries one.
SecretOnlyInValidation ==
  /\ \A s \in SessionIds :
       /\ "api_key" \notin DOMAIN vault[s]
       /\ DOMAIN session_credentials(s) \subseteq {"exists", "provider", "model"}
  /\ localStorage.api_key = NoSecret
  /\ lastRequest.endpoint \in {"analyze", "learn", "session/credentials"} =>
       lastRequest.api_key = NoSecret

(***************************************************************************)
(* Properties of the traces the client paths return                        *)
(***************************************************************************)
\* C10: every Trace handed to the caller has a non-empty frames list in which
\* every frame's data is non-empty, on the paths analyzeProblemWithBackend
\* (both variants) and generateAlgorithmTrace; otherwise the path fails or
\* falls back to the demo trace.
ReturnedFramesHaveData ==
  returned.outcome = "trace" =>
    /\ returned.frames # <<>>
    /\ \A i \in 1..Len(returned.frames) : returned.frames[i] # {}

(***************************************************************************)
(* Properties of the repair of frames and quizzes                          *)
(***************************************************************************)
EndOptionsLast(options) ==
  \A i \in 1..Len(options), j \in 1..Len(options) :
    (i < j /\ IsEndOption(options[i])) => IsEndOption(options[j])

\* C11: every quiz of a repaired frame has an integer correct with
\* 0 <= correct < len(options), and its catch-all options stand last, whatever
\* the quiz was before (correct missing, non-numeric, negative, too large).
QuizInvariant ==
  (repairPath # "none" /\ repairOut.quiz.present) =>
    /\ InRange(repairOut.quiz.correct, repairOut.quiz.options)
    /\ (repairPasses > 0 => EndOptionsLast(repairOut.quiz.options))

\* the text quiz.correct points to (correct is in range)
AnswerText(quiz) == quiz.options[quiz.correct.n + 1]

\* the cross-validation has an answer of its own for the quiz
Overruled(quiz) == \E i \in 1..Len(quiz.options) : quiz.options[i] = quiz.derived

\* a quiz with fewer than MIN_OPTIONS options and a correct index that
\* points to one of them
ShortValidQuiz(quiz) ==
  /\ quiz.present
  /\ Len(quiz.options) < MIN_OPTIONS
  /\ quiz.correct.kind = "num"
  /\ quiz.correct.n \in 0..(Len(quiz.options) - 1)

\* the option texts of seq, as a set
OptionSet(seq) == {seq[i] : i \in 1..Len(seq)}

\* C12: the repair of a quiz with fewer than 4 options and a valid correct
\* yields exactly 4 options: the ordinary options are those of the input (in
\* any order), the catch-all options stand last with those of the input in
\* their order before the padding, and correct points to the text it pointed
\* to before (or, where the cross-validation that follows derives an answer,
\* to that answer).
PaddingKeepsAnswer ==
  (repairPasses > 0 /\ ShortValidQuiz(repairIn.quiz)) =>
    LET in == repairIn.quiz
        out == repairOut.quiz
        inEnds == SelectSeq(in.options, IsEndOption)
        outEnds == SelectSeq(out.options, IsEndOption)
    IN /\ Len(out.options) = MIN_OPTIONS
       /\ OptionSet(SelectSeq(out.options, IsRegularOption))
            = OptionSet(SelectSeq(in.options, IsRegularOption))
       /\ Len(SelectSeq(out.options, IsRegularOption))
            = Len(SelectSeq(in.options, IsRegularOption))
       /\ EndOptionsLast(out.options)
       /\ SubSeq(outEnds, 1, Len(inEnds)) = inEnds
       /\ Len(outEnds) = Len(inEnds) + (MIN_OPTIONS - Len(in.options))
       /\ out.correct.kind = "num"
       /\ out.correct.n \in 0..(MIN_OPTIONS - 1)
       /\ AnswerText(out) = IF Overruled(in) THEN in.derived ELSE AnswerText(in)

\* options ["A","B"], correct 1: after a shuffle that moved "B" to the front,
\* correct is 0 and two distractors stand last
PaddingKeepsAnswerWitness ==
  /\ repairPasses = 1
  /\ repairIn.quiz.present
  /\ repairIn.quiz.options = <<"A", "B">>
  /\ repairIn.quiz.correct = Correct("num", 1)
  /\ repairIn.quiz.derived = ""
  /\ repairOut.quiz.options = <<"B", "A", "None of the above", "Skip this step">>
  /\ repairOut.quiz.correct = Correct("num", 0)

\* C13: a repair pass over a frame that is already the output of a repair
\* pass returns the same frame (data, highlights, option order and correct),
\* whatever the shuffle and the cross-validation do.
RepairIdempotent ==
  [][(repairPasses = 1 /\ repairPasses' = 2) => repairOut' = repairOut]_vars

\* highlight h names a key of data, or an element that key's value list has
Resolving(h, data) ==
  \E i \in 1..Len(data) :
    data[i].name = h.name /\ (h.indexed => h.index \in 0..(data[i].size - 1))

\* sub consists of entries of seq in the order they have in seq
RECURSIVE IsSubsequence(_, _)
IsSubsequence(sub, seq) ==
  IF sub = <<>> THEN TRUE
  ELSE IF seq = <<>> THEN FALSE
  ELSE IF Head(sub) = Head(seq) THEN IsSubsequence(Tail(sub), Tail(seq))
  ELSE IsSubsequence(sub, Tail(seq))

\* C14: after repair every highlight of the frame resolves to a key of the
\* frame's data or to an indexed element of one; the input's highlights that
\* do not resolve are removed and the others kept in order; when the input has
\* no highlight that resolves and data is not empty, highlights is exactly
\* the first data key.
HighlightsResolve ==
  repairPasses > 0 =>
    LET data == repairOut.data
        in == repairIn.highlights
        out == repairOut.highlights
        NoneKept == \A i \in 1..Len(in) : ~Resolving(in[i], data)
    IN /\ \A i \in 1..Len(out) : Resolving(out[i], data)
       /\ ~NoneKept =>
            /\ IsSubsequence(out, in)
            /\ Len(out) = Cardinality({i \in 1..Len(in) : Resolving(in[i], data)})
       /\ (NoneKept /\ data # <<>>) =>
            out = <<[name |-> data[1].name, indexed |-> FALSE, index |-> 0]>>

\* highlights ["z", "x[5]"] on data {y, x} with two values of x: both are
\* removed and the first key "y" is highlighted
HighlightsResolveWitness ==
  /\ repairPasses = 1
  /\ repairIn.data = <<DataEntry("y", 1), DataEntry("x", 2)>>
  /\ repairIn.highlights = <<KeyRef("z"), ElementRef("x", 5)>>
  /\ repairOut.highlights = <<KeyRef("y")>>

\* what the three tiers hold for a problem
TierNames == <<"router", "memory", "disk">>
RouterHolds(problem) == lower(strip(problem[1])) \in DOMAIN pattern_library
MemoryHolds(problem) == generate_cache_key(problem[1], problem[2]) \in DOMAIN memory_cache
DiskHolds(problem) ==
  LET k == generate_cache_key(problem[1], problem[2]) IN
  k \in DOMAIN file_cache /\ ~(today - file_mtime[k] > CACHE_TTL_DAYS)

\* the number of the first tier that holds the problem, 0 when none does
FirstTier(problem) ==
  IF RouterHolds(problem) THEN 1
  ELSE IF MemoryHolds(problem) THEN 2
  ELSE IF DiskHolds(problem) THEN 3
  ELSE 0

TierEntry(problem, i) ==
  LET k == generate_cache_key(problem[1], problem[2]) IN
  IF i = 1 THEN pattern_library[lower(strip(problem[1]))]
  ELSE IF i = 2 THEN memory_cache[k]
  ELSE file_cache[k]

\* the step of an analyze call, which looks the problem up
AnalyzeStep == lastCall'.n # lastCall.n /\ lastCall'.mode = "analyze"
\* the step of a learn call
LearnStep == lastCall'.n # lastCall.n /\ lastCall'.mode = "learn"

\* C15: a lookup consults the pattern router, the memory map and the disk
\* store in this order and returns the entry of the first tier that holds the
\* key, tagged with that tier, consulting no later tier; it reports a miss
\* only when all three miss, where a disk entry older than 7 days is a miss.
TieredLookup ==
  [][AnalyzeStep =>
       LET problem == looked'.problem
           i == FirstTier(problem)
       IN /\ looked'.n = lastCall'.n
          /\ IF i = 0
             THEN ~looked'.hit /\ looked'.consulted = TierNames
             ELSE /\ looked'.hit
                  /\ looked'.tier = TierNames[i]
                  /\ looked'.trace = TierEntry(problem, i)
                  /\ looked'.consulted = SubSeq(TierNames, 1, i)]_vars

\* a lookup missed although the file of the key is on disk: the file is older
\* than 7 days and the memory map was emptied by a restart
TieredLookupWitness ==
  /\ looked.done
  /\ ~looked.hit
  /\ looked.n = lastCall.n
  /\ ~lastCall.ok
  /\ memory_cache = <<>>
  /\ generate_cache_key(looked.problem[1], looked.problem[2]) \in DOMAIN file_cache
  /\ today = MaxDays

\* the step of an analyze call that missed and whose pipeline run succeeded
StoreStep == AnalyzeStep /\ ~looked'.hit /\ lastCall'.ok

\* C16: store writes the trace to the memory tier and to the disk tier and
\* leaves the router table as it is; no step changes the router table.
StoreLeavesRouter ==
  [][/\ pattern_library' = pattern_library
     /\ StoreStep =>
          LET k == generate_cache_key(looked'.problem[1], looked'.problem[2]) IN
          /\ k \in DOMAIN memory_cache' /\ k \in DOMAIN file_cache'
          /\ memory_cache'[k] = file_cache'[k]
          /\ memory_cache'[k].key = k
          /\ memory_cache'[k].agents = NUM_AGENTS
          /\ file_mtime'[k] = today]_vars

\* a trace was stored for a problem the router does not know: it is in the
\* memory tier and on disk, and the router table is the library's
StoreLeavesRouterWitness ==
  /\ looked.done
  /\ ~looked.hit
  /\ looked.n = lastCall.n
  /\ lastCall.ok
  /\ LET k == generate_cache_key(looked.problem[1], looked.problem[2]) IN
     /\ k \in DOMAIN memory_cache
     /\ k \in DOMAIN file_cache
     /\ ~(lower(strip(looked.problem[1])) \in DOMAIN pattern_library)
  /\ pattern_library = PATTERN_LIBRARY

\* C17: a learn call, successful or failed, leaves the memory tier and the
\* disk tier as they were; an entry appears in a tier only in the step of a
\* successful analyze call.
LearnNeverCaches ==
  [][/\ LearnStep =>
          (memory_cache' = memory_cache /\ file_cache' = file_cache
             /\ file_mtime' = file_mtime)
     /\ ((DOMAIN memory_cache') \ (DOMAIN memory_cache) # {}
           \/ (DOMAIN file_cache') \ (DOMAIN file_cache) # {})
          => (AnalyzeStep /\ lastCall'.ok)]_vars

\* a successful learn call was the second call, after an analyze call had
\* cached its trace: the tiers hold that one entry only
LearnNeverCachesWitness ==
  /\ lastCall.mode = "learn"
  /\ lastCall.ok
  /\ lastCall.n = 2
  /\ Cardinality(DOMAIN memory_cache) = 1
  /\ DOMAIN file_cache = DOMAIN memory_cache

\* the step of a store-credentials call, and of a credential resolution
VaultStoreStep == storeResult' # storeResult
ResolveStep == resolved' # resolved

\* the request carries a usable API key
CarriesKey(cfg) == cfg.present /\ cfg.api_key # NoSecret

\* C18: without a master key, store answers ok=false and leaves the vault as
\* it is (no row created or overwritten), and an analyze or learn call whose
\* request carries credentials, or that falls to the default configuration,
\* still resolves a RequestContext with a credential and runs.
FailsClosed ==
  [][/\ (VaultStoreStep /\ fernet_key = NO_KEY) => (~storeResult'.ok /\ vault' = vault)
     /\ (ResolveStep /\ fernet_key = NO_KEY) =>
          LET cfg == resolved'.llm_config
              c == resolved'.context
          IN /\ CarriesKey(cfg) =>
                  /\ c.resolved /\ c.credential
                  /\ c.source = "request"
                  /\ c.provider = cfg.provider /\ c.api_key = cfg.api_key
             /\ (~CarriesKey(cfg) /\ env_default.present) =>
                  /\ c.resolved /\ c.credential
                  /\ c.source = "env"
                  /\ c.provider = env_default.provider /\ c.api_key = env_default.api_key]_vars

\* the key was lost after a first store: the second store of the session was
\* refused and its row is the one of the first store; a call without
\* llm_config then ran on the default configuration
FailsClosedWitness ==
  /\ fernet_key = NO_KEY
  /\ storeResult.done /\ storeResult.n = 2 /\ ~storeResult.ok
  /\ vault[storeResult.session_id].exists
  /\ vault[storeResult.session_id].encrypted_api_key.fernet = CREDENTIAL_ENCRYPTION_KEY
  /\ resolved.done /\ resolved.key = NO_KEY
  /\ resolved.session_id = storeResult.session_id
  /\ ~resolved.llm_config.present
  /\ resolved.context.credential /\ resolved.context.source = "env"

\* a row that is there and not expired, but not readable with the key of the
\* process: written under another key, or damaged
Undecryptable(row) ==
  row.exists /\ now < row.expires_at /\ row.encrypted_api_key.fernet # fernet_key

\* the context of a call of session s with llm_config cfg when the vault has
\* nothing for s
AsIfNoRecord(s, cfg) ==
  IF CarriesKey(cfg)
  THEN [resolved |-> TRUE, credential |-> TRUE, session_id |-> s, provider |-> cfg.provider,
        model |-> cfg.model, api_key |-> cfg.api_key, source |-> "request"]
  ELSE IF env_default.present
  THEN [resolved |-> TRUE, credential |-> TRUE, session_id |-> s,
        provider |-> env_default.provider, model |-> env_default.model,
        api_key |-> env_default.api_key, source |-> "env"]
  ELSE [resolved |-> TRUE, credential |-> FALSE, session_id |-> s, source |-> "none"]

\* C19: when the row of a session cannot be decrypted (damaged, or written
\* under a key that was rotated since), get returns NotFound and no error,
\* and the resolution for the session gives what it gives for a session
\* without a row: the default configuration, or no credential.
DecryptFailureIsNotFound ==
  /\ \A s \in SessionIds :
       Undecryptable(vault[s]) =>
         /\ get_credentials(s) = [exists |-> FALSE]
         /\ \A cfg \in AllRequestConfigs : resolve_context(s, cfg) = AsIfNoRecord(s, cfg)
  /\ (/\ resolved.done
      /\ resolved.row.exists
      /\ resolved.row.encrypted_api_key.fernet # resolved.key)
       => resolved.context = AsIfNoRecord(resolved.session_id, resolved.llm_config)

\* a call without llm_config of a session whose row was written under the
\* key of the deployment, after the key was rotated: it ran on the default
DecryptFailureIsNotFoundWitness ==
  /\ resolved.done
  /\ resolved.row.exists
  /\ resolved.row.encrypted_api_key.fernet = CREDENTIAL_ENCRYPTION_KEY
  /\ resolved.key = ROTATED_KEY
  /\ ~resolved.llm_config.present
  /\ resolved.context.credential
  /\ resolved.context.source = "env"

\* handler h waits for the pipeline or for the provider's validation
Waiting(h) == hpc[h] \in {"pipeline", "validating"}

\* handler h has a cache operation or a vault query to do
WantsCache(h) == hpc[h] \in {"check", "store"}
WantsVault(h) == hpc[h] = "vault"

\* C20: a handler that waits for the pipeline or for a provider validation
\* holds neither the lock of the memory cache nor an open vault connection;
\* so a handler with a cache operation or a vault query to do gets to do it
\* even when the pipeline or the provider of another handler never answers.
NoLockWhileWaiting ==
  /\ [](\A h \in SessionIds : Waiting(h) => (cache_lock # h /\ vault_txn # h))
  /\ \A g \in SessionIds : WantsCache(g) ~> ~WantsCache(g)
  /\ \A g \in SessionIds : WantsVault(g) ~> ~WantsVault(g)

\* one handler waits for the pipeline while the other holds the cache lock
\* for its lookup
NoLockWhileWaitingWitness ==
  \E h \in SessionIds, g \in SessionIds :
    /\ hpc[h] = "pipeline"
    /\ hpc[g] = "reading"
    /\ cache_lock = g
    /\ vault_txn = NoHandler


\* ---------------------------------------------------------------------------
\* Racing stores of one cache key
\* ---------------------------------------------------------------------------

\* t is the whole trace the analyze call of some handler computes for key k
CompleteTraceFor(t, k) ==
  /\ t.agents = NUM_AGENTS
  /\ \E g \in SessionIds :
       t = [key |-> k, provider_used |-> ContextOf(g).provider,
            model_used |-> ContextOf(g).model, session_id |-> g, agents |-> NUM_AGENTS]

\* both handlers missed on the same key and both went on to the agents
BothMissed ==
  /\ \A h \in SessionIds :
       /\ hcall[h].kind = "analyze"
       /\ hcall[h].found.read
       /\ ~hcall[h].found.hit
       /\ hcall[h].credential
  /\ \A h, g \in SessionIds : key_of(hcall[h].problem) = key_of(hcall[g].problem)

QuizOpen == appTrace[IF currentStep < Len(appTrace) THEN currentStep + 1 ELSE 1] /\ ~quizSolved

\* C22: while the active frame has an unresolved quiz, no control moves
\* currentStep to a later frame
QuizPausesPlayback == [][QuizOpen => currentStep' <= currentStep]_vars

\* C26: the visualization request of a learning flow uses the mode the
\* learning request of handleAnalyze used, whatever backendActive is by then
ModeLockedInFlow ==
  /\ [](pending.kind = "visualize" => pending.mode = flowMode)
  /\ [][(pending.kind # "visualize" /\ pending'.kind = "visualize")
          => (sessionBackendMode = flowMode /\ pending'.mode = flowMode)]_vars

\* a visualization request in flight in the locked mode, after the health
\* check has changed backendActive to the other mode
ModeLockedInFlowWitness ==
  /\ pending.kind = "visualize"
  /\ pending.mode = "backend"
  /\ ~backendActive

\* the handlers that resolve a quiz
QuizEvents == {"handleQuizCorrect", "onSkipQuiz"}

\* every quiz that blocks playback is resolved at some time: no quiz stays
\* open for ever
QuizzesResolved == []<>~QuizOpen

StepInRange == 0 <= currentStep /\ currentStep < Len(appTrace)

\* C30: with no request in flight and neither the learning journey nor the
\* deep dive open, the mode lock is released
LockReleasedAfterFlow ==
  (pending.kind = "none" /\ ~showLearningJourney /\ ~showAlgorithmDeepDive)
    => sessionBackendMode = "null"


\* ---------------------------------------------------------------------------
\* Properties of the Sidebar's validation
\* ---------------------------------------------------------------------------

\* C24: a store-credentials request is sent only by the step in which
\* validateCredentials returned valid = true, and it carries the
\* configuration that was validated
StoreOnlyAfterValid ==
  [][(lastRequest'.endpoint = "session/store-credentials" /\ lastRequest' # lastRequest)
       => /\ flight.stage = "validating"
          /\ validationStatus' = "valid"
          /\ lastRequest'.provider = flight.provider
          /\ lastRequest'.api_key = flight.api_key]_vars

\* the credentials of a valid configuration are being stored
StoreOnlyAfterValidWitness ==
  /\ lastRequest.endpoint = "session/store-credentials"
  /\ flight.stage = "storing"
  /\ validationStatus = "valid"
  /\ lastRequest.api_key # NoSecret

\* C29: the status becomes 'valid' only by a successful validation of the
\* configuration that is entered at that moment, and while it is 'valid' the
\* configuration does not change
ValidMeansValidated ==
  /\ [][(validationStatus # "valid" /\ validationStatus' = "valid")
          => /\ flight.stage = "validating"
             /\ flight.provider = selectedProvider'
             /\ flight.api_key = apiKey']_vars
  /\ [][(validationStatus = "valid" /\ validationStatus' = "valid")
          => (selectedProvider' = selectedProvider /\ apiKey' = apiKey)]_vars


\* ---------------------------------------------------------------------------
\* Properties of the API service
\* ---------------------------------------------------------------------------

\* C23: every request the tab has sent carries an X-Session-ID header, and
\* it is the one session id of the tab
EveryRequestHasSession ==
  \A r \in sentRequests : r.session_id # "" /\ r.session_id = sessionStorage

\* the time limit of the call in progress, from the two constants
LimitOfCall == IF apiCall.fn = "learn" THEN LEARN_TIMEOUT ELSE ANALYZE_TIMEOUT

\* C25: a call still waiting for its response is never older than its limit
\* (120 s for analyze, 180 s for learn); the abort fires only on such a call
\* at its limit and the call then rejects with the timeout error; a call that
\* has completed in any way has no timer left, and only a call the abort fired
\* on ends with the timeout error
TimeoutAbandons ==
  /\ [](apiCall.stage = "fetching" => elapsed <= LimitOfCall)
  /\ [](apiCall.stage = "settled" => ~timer.armed)
  /\ [](apiCall.stage = "settled" => (apiCall.outcome = "timeout" <=> timer.aborted))
  /\ [][(~timer.aborted /\ timer'.aborted)
          => /\ apiCall.stage = "fetching"
             /\ elapsed = LimitOfCall
             /\ apiCall'.stage = "settled"
             /\ apiCall'.outcome = "timeout"]_vars

\* a learn call was abandoned at three minutes
TimeoutAbandonsWitness ==
  /\ apiCall.fn = "learn"
  /\ apiCall.stage = "settled"
  /\ apiCall.outcome = "timeout"
  /\ elapsed = LEARN_TIMEOUT
  /\ timer.aborted

====
